---------------------------- MODULE Spec2Model ----------------------------
(***************************************************************************)
(* MAP v1.1 (map-protocol/map1, Python implementation): the MCF encoder,   *)
(* the MCF decoder / validator and the JSON-STRICT adapter as pure         *)
(* functions, and the public operations as actions that apply them to      *)
(* inputs drawn from bounded sets.                                         *)
(*                                                                         *)
(* Representation of host (Python) values, all records with a field t:     *)
(*   bool   [t |-> "bool",  b |-> BOOLEAN]                                 *)
(*   int    [t |-> "int",   neg |-> BOOLEAN, mag |-> base-256 digits]      *)
(*   str    [t |-> "str",   cps |-> sequence of code points]               *)
(*   bytes  [t |-> "bytes", bs |-> sequence of 0..255]                     *)
(*   list   [t |-> "list",  items |-> sequence of values]                  *)
(*   dict   [t |-> "dict",  entries |-> sequence of <<key, value>>]        *)
(*          (insertion order, keys pairwise distinct)                      *)
(*   None   [t |-> "none"], float [t |-> "float", ...], tuple, ...         *)
(* Python ints are unbounded; they are kept as sign and magnitude, the     *)
(* magnitude big-endian in base 256 without leading zeros, so that the     *)
(* int64 range check and the 8-byte two's complement are computed at full  *)
(* width.                                                                  *)
(* A call's outcome is [ok |-> TRUE, v |-> result] or                      *)
(* [ok |-> FALSE, v |-> code], code an ERR_* string of MapError or the     *)
(* name of another exception class that escapes.                           *)
(***************************************************************************)
EXTENDS Integers, Sequences, FiniteSets, TLC

VARIABLES call, arg, aux, out

vars == <<call, arg, aux, out>>

(* ------------------------------ bounds -------------------------------- *)

\* Entries per generated LIST / MAP value of the value API inputs.
MaxEntries == 2

(* ------------------------- _constants.py ------------------------------ *)

CANON_HDR == <<77, 65, 80, 49, 0>>

TAG_STRING == 1
TAG_BYTES == 2
TAG_LIST == 3
TAG_MAP == 4
TAG_BOOLEAN == 5
TAG_INTEGER == 6

INT64_MIN == [t |-> "int", neg |-> TRUE, mag |-> <<128, 0, 0, 0, 0, 0, 0, 0>>]
INT64_MAX == [t |-> "int", neg |-> FALSE,
              mag |-> <<127, 255, 255, 255, 255, 255, 255, 255>>]

MAX_CANON_BYTES == 1048576
MAX_DEPTH == 32
MAX_MAP_ENTRIES == 65535
MAX_LIST_ENTRIES == 65535

(* --------------------------- _errors.py ------------------------------- *)

ERR_CANON_HDR == "ERR_CANON_HDR"
ERR_CANON_MCF == "ERR_CANON_MCF"
ERR_SCHEMA == "ERR_SCHEMA"
ERR_TYPE == "ERR_TYPE"
ERR_UTF8 == "ERR_UTF8"
ERR_DUP_KEY == "ERR_DUP_KEY"
ERR_KEY_ORDER == "ERR_KEY_ORDER"
ERR_LIMIT_DEPTH == "ERR_LIMIT_DEPTH"
ERR_LIMIT_SIZE == "ERR_LIMIT_SIZE"

PRECEDENCE == <<ERR_CANON_HDR, ERR_CANON_MCF, ERR_SCHEMA, ERR_TYPE, ERR_UTF8,
                ERR_DUP_KEY, ERR_KEY_ORDER, ERR_LIMIT_DEPTH, ERR_LIMIT_SIZE>>

\* _PREC_INDEX.get(e, 10_000), zero-based as in the source.
PrecIndex(e) ==
    IF \E i \in 1..Len(PRECEDENCE) : PRECEDENCE[i] = e
    THEN (CHOOSE i \in 1..Len(PRECEDENCE) : PRECEDENCE[i] = e) - 1
    ELSE 10000

\* MapError(code) raised / a value returned.
Err(code) == [ok |-> FALSE, v |-> code]
Ok(x) == [ok |-> TRUE, v |-> x]

\* Sequencing: the outcome o of a step and what follows it; an exception ends
\* the function.
Then(o, F(_)) == IF o.ok THEN F(o.v) ELSE o

(* ------------------------- host value helpers ------------------------- *)

VBool(b) == [t |-> "bool", b |-> b]
VInt(neg, mag) == [t |-> "int", neg |-> neg, mag |-> mag]
VStr(cps) == [t |-> "str", cps |-> cps]
VBytes(bs) == [t |-> "bytes", bs |-> bs]
VList(items) == [t |-> "list", items |-> items]
VDict(entries) == [t |-> "dict", entries |-> entries]
VNone == [t |-> "none"]

\* Comparison of magnitudes (base 256, big-endian, no leading zeros).
RECURSIVE MagCmp(_, _)
MagCmp(a, b) ==
    IF Len(a) # Len(b) THEN (IF Len(a) < Len(b) THEN -1 ELSE 1)
    ELSE IF a = <<>> THEN 0
    ELSE IF Head(a) # Head(b) THEN (IF Head(a) < Head(b) THEN -1 ELSE 1)
    ELSE MagCmp(Tail(a), Tail(b))

\* x < y on Python ints.
IntLt(x, y) ==
    IF x.neg # y.neg THEN x.neg
    ELSE IF x.neg THEN MagCmp(x.mag, y.mag) = 1
    ELSE MagCmp(x.mag, y.mag) = -1

RECURSIVE StripZeros(_)
StripZeros(bs) ==
    IF bs # <<>> /\ Head(bs) = 0 THEN StripZeros(Tail(bs)) ELSE bs

Zeros(n) == [i \in 1..n |-> 0]

\* bs + 1 modulo 256^Len(bs), big-endian.
RECURSIVE AddOne(_)
AddOne(bs) ==
    IF bs = <<>> THEN <<>>
    ELSE LET n == Len(bs)
             last == bs[n]
             init == SubSeq(bs, 1, n - 1)
         IN IF last < 255 THEN Append(init, last + 1)
            ELSE Append(AddOne(init), 0)

\* Two's complement negation on a fixed width: invert every bit, add one.
TwosNeg(bs) == AddOne([i \in 1..Len(bs) |-> 255 - bs[i]])

\* A bug: the bits of a negative value inverted without the added one.
pack_q_ones_complement(val) ==
    LET padded == Zeros(8 - Len(val.mag)) \o val.mag
    IN IF val.neg THEN [i \in 1..8 |-> 255 - padded[i]] ELSE padded

\* struct.pack(">q", val) for INT64_MIN <= val <= INT64_MAX.
pack_q(val) ==
    LET padded == Zeros(8 - Len(val.mag)) \o val.mag
    IN IF val.neg THEN TwosNeg(padded) ELSE padded

\* struct.unpack(">q", bs)[0] for 8 bytes.
unpack_q(bs) ==
    IF bs[1] >= 128 THEN VInt(TRUE, StripZeros(TwosNeg(bs)))
    ELSE VInt(FALSE, StripZeros(bs))

\* A bug: the four octets in little-endian order.
pack_I_little_endian(n) ==
    << n % 256, (n \div 256) % 256, (n \div 65536) % 256, (n \div 16777216) % 256 >>

\* struct.pack(">I", n): n < 2^31 in every reachable call.
pack_I(n) ==
    << (n \div 16777216) % 256, (n \div 65536) % 256, (n \div 256) % 256, n % 256 >>

(* ------------------------------ UTF-8 --------------------------------- *)

IsSurrogate(cp) == 55296 <= cp /\ cp <= 57343

\* One code point as str.encode("utf-8") emits it (cp not a surrogate).
Utf8OfCp(cp) ==
    IF cp < 128 THEN <<cp>>
    ELSE IF cp < 2048 THEN <<192 + (cp \div 64), 128 + (cp % 64)>>
    ELSE IF cp < 65536
         THEN <<224 + (cp \div 4096), 128 + ((cp \div 64) % 64), 128 + (cp % 64)>>
    ELSE <<240 + (cp \div 262144), 128 + ((cp \div 4096) % 64),
           128 + ((cp \div 64) % 64), 128 + (cp % 64)>>

RECURSIVE Utf8OfCps(_)
Utf8OfCps(cps) ==
    IF cps = <<>> THEN <<>> ELSE Utf8OfCp(Head(cps)) \o Utf8OfCps(Tail(cps))

\* str.encode("utf-8"): a lone surrogate raises UnicodeEncodeError, which is
\* not a MapError.
str_encode_utf8(cps) ==
    IF \E i \in 1..Len(cps) : IsSurrogate(cps[i])
    THEN Err("UnicodeEncodeError")
    ELSE Ok(Utf8OfCps(cps))

IsCont(b) == 128 <= b /\ b <= 191

\* The length of the well-formed UTF-8 sequence that starts at b[i], 0 if
\* none does: overlong forms, encoded surrogates, values above U+10FFFF and
\* truncated sequences are ill-formed.
Utf8SeqLen(b, i) ==
    LET n == Len(b)
        b0 == b[i]
    IN CASE b0 < 128 -> 1
         [] /\ 194 <= b0 /\ b0 <= 223
            /\ i + 1 <= n /\ IsCont(b[i + 1]) -> 2
         [] /\ 224 <= b0 /\ b0 <= 239
            /\ i + 2 <= n /\ IsCont(b[i + 1]) /\ IsCont(b[i + 2])
            /\ (b0 = 224 => b[i + 1] >= 160)
            /\ (b0 = 237 => b[i + 1] <= 159) -> 3
         [] /\ 240 <= b0 /\ b0 <= 244
            /\ i + 3 <= n
            /\ IsCont(b[i + 1]) /\ IsCont(b[i + 2]) /\ IsCont(b[i + 3])
            /\ (b0 = 240 => b[i + 1] >= 144)
            /\ (b0 = 244 => b[i + 1] <= 143) -> 4
         [] OTHER -> 0

\* The code point of the well-formed sequence of length len at b[i].
Utf8CpAt(b, i, len) ==
    CASE len = 1 -> b[i]
      [] len = 2 -> (b[i] - 192) * 64 + (b[i + 1] - 128)
      [] len = 3 -> (b[i] - 224) * 4096 + (b[i + 1] - 128) * 64 + (b[i + 2] - 128)
      [] len = 4 -> (b[i] - 240) * 262144 + (b[i + 1] - 128) * 4096
                    + (b[i + 2] - 128) * 64 + (b[i + 3] - 128)

\* bytes.decode("utf-8", errors="strict"): the code points, or
\* UnicodeDecodeError.  The input is well-formed when a well-formed sequence
\* starts at every octet that is no continuation octet and every
\* continuation octet belongs to the sequence of the nearest such octet
\* before it; the characters are then the sequences in the order of their
\* first octets.  ASCII input is its own decoding.
bytes_decode_utf8(b) ==
    LET n == Len(b)
        starts == {i \in 1..n : ~IsCont(b[i])}
        rank == [i \in 1..n |-> Cardinality({j \in starts : j <= i})]
    IN IF \A i \in 1..n : b[i] < 128 THEN Ok(b)
       ELSE IF /\ \A i \in starts : Utf8SeqLen(b, i) > 0
               /\ \A i \in (1..n) \ starts :
                     \E j \in starts : j < i /\ i < j + Utf8SeqLen(b, j)
            THEN Ok([k \in 1..Cardinality(starts) |->
                       LET i == CHOOSE j \in starts : rank[j] = k
                       IN Utf8CpAt(b, i, Utf8SeqLen(b, i))])
            ELSE Err("UnicodeDecodeError")

\* validate_utf8_scalar(b): returns None or raises ERR_UTF8.
validate_utf8_scalar(b) ==
    LET s == bytes_decode_utf8(b)
    IN IF ~s.ok THEN Err(ERR_UTF8)
       ELSE IF \E i \in 1..Len(s.v) : IsSurrogate(s.v[i]) THEN Err(ERR_UTF8)
       ELSE Ok(VNone)

(* --------------------------- key ordering ----------------------------- *)

\* _key_cmp(a, b): -1, 0 or 1 by unsigned-octet memcmp, shorter first.
RECURSIVE KeyCmpFrom(_, _, _)
KeyCmpFrom(a, b, i) ==
    LET min_len == IF Len(a) < Len(b) THEN Len(a) ELSE Len(b)
    IN IF i > min_len
       THEN IF Len(a) = Len(b) THEN 0
            ELSE IF Len(a) < Len(b) THEN -1 ELSE 1
       ELSE IF a[i] # b[i] THEN (IF a[i] < b[i] THEN -1 ELSE 1)
       ELSE KeyCmpFrom(a, b, i + 1)

\* A bug: the shorter key first, whatever its octets.
key_cmp_length_first(a, b) ==
    IF Len(a) # Len(b) THEN (IF Len(a) < Len(b) THEN -1 ELSE 1)
    ELSE KeyCmpFrom(a, b, 1)

key_cmp(a, b) == KeyCmpFrom(a, b, 1)

\* _ensure_sorted_unique(keys): raises at the first adjacent pair that is
\* equal (ERR_DUP_KEY) or descending (ERR_KEY_ORDER).
RECURSIVE EnsureFrom(_, _)
EnsureFrom(keys, i) ==
    IF i > Len(keys) THEN Ok(VNone)
    ELSE LET c == key_cmp(keys[i - 1], keys[i])
         IN IF c = 0 THEN Err(ERR_DUP_KEY)
            ELSE IF c > 0 THEN Err(ERR_KEY_ORDER)
            ELSE EnsureFrom(keys, i + 1)

ensure_sorted_unique(keys) == EnsureFrom(keys, 2)

(* ----------------------------- MCF encode ---------------------------- *)

\* _u32be(n): n > 0xFFFFFFFF is written on the upper half-word.
u32be(n) ==
    IF n < 0 \/ n \div 65536 > 65535 THEN Err(ERR_CANON_MCF)
    ELSE Ok(pack_I(n))

\* isinstance(val, cls); bool is a subclass of int in Python.
isinstance(val, cls) ==
    IF cls = "int" THEN val.t \in {"int", "bool"} ELSE val.t = cls

\* The numeric value of an int instance (True is 1, False is 0).
IntOf(val) ==
    IF val.t = "bool"
    THEN (IF val.b THEN VInt(FALSE, <<1>>) ELSE VInt(FALSE, <<>>))
    ELSE val

\* A bug the source warns of: INTEGER tested before BOOLEAN.
encode_branch_int_first(val) ==
    IF isinstance(val, "int") THEN "int"
    ELSE IF isinstance(val, "bool") THEN "bool"
    ELSE IF isinstance(val, "str") THEN "str"
    ELSE IF isinstance(val, "bytes") THEN "bytes"
    ELSE IF isinstance(val, "list") THEN "list"
    ELSE IF isinstance(val, "dict") THEN "dict"
    ELSE "unsupported"

\* The isinstance chain of mcf_encode_value: the first test that succeeds.
encode_branch(val) ==
    IF isinstance(val, "bool") THEN "bool"
    ELSE IF isinstance(val, "int") THEN "int"
    ELSE IF isinstance(val, "str") THEN "str"
    ELSE IF isinstance(val, "bytes") THEN "bytes"
    ELSE IF isinstance(val, "list") THEN "list"
    ELSE IF isinstance(val, "dict") THEN "dict"
    ELSE "unsupported"

\* A bug the source warns of: octets compared as signed (-128..127).
bytes_lt_signed(a, b) ==
    LET S(x) == IF x >= 128 THEN x - 256 ELSE x
        m == IF Len(a) < Len(b) THEN Len(a) ELSE Len(b)
        D == {i \in 1..m : a[i] # b[i]}
    IN IF D = {} THEN Len(a) < Len(b)
       ELSE LET i == CHOOSE i \in D : \A j \in D : i <= j
            IN S(a[i]) < S(b[i])

\* a < b on Python bytes objects (the comparison list.sort uses on the keys).
bytes_lt(a, b) ==
    LET m == IF Len(a) < Len(b) THEN Len(a) ELSE Len(b)
        D == {i \in 1..m : a[i] # b[i]}
    IN IF D = {} THEN Len(a) < Len(b)
       ELSE LET i == CHOOSE i \in D : \A j \in D : i <= j
            IN a[i] < b[i]

\* items.sort(key=lambda kv: kv[0]): stable, ascending in bytes_lt.
RECURSIVE InsertByKey(_, _)
InsertByKey(sorted, kv) ==
    IF sorted = <<>> THEN <<kv>>
    ELSE LET n == Len(sorted)
         IN IF bytes_lt(kv[1], sorted[n][1])
            THEN Append(InsertByKey(SubSeq(sorted, 1, n - 1), kv), sorted[n])
            ELSE Append(sorted, kv)

RECURSIVE SortFrom(_, _, _)
SortFrom(items, i, acc) ==
    IF i > Len(items) THEN acc
    ELSE SortFrom(items, i + 1, InsertByKey(acc, items[i]))

\* A bug: the collected entries are emitted in insertion order.
sort_items_none(items) == items

sort_items(items) == SortFrom(items, 1, <<>>)

\* The key loop of the dict branch: type test, UTF-8 bytes, validation.
RECURSIVE CollectItems(_, _, _)
CollectItems(entries, i, acc) ==
    IF i > Len(entries) THEN Ok(acc)
    ELSE LET k == entries[i][1]
             v == entries[i][2]
         IN IF ~isinstance(k, "str") THEN Err(ERR_SCHEMA)
            ELSE Then(str_encode_utf8(k.cps), LAMBDA kb :
                 Then(validate_utf8_scalar(kb), LAMBDA u :
                 CollectItems(entries, i + 1, Append(acc, <<kb, v>>))))

\* The scalar branches and the final raise.
EncodeScalar(val, br) ==
    CASE br = "bool" ->
           Ok(<<TAG_BOOLEAN, IF val.b THEN 1 ELSE 0>>)
      [] br = "int" ->
           LET n == IntOf(val)
           IN IF IntLt(n, INT64_MIN) \/ IntLt(INT64_MAX, n)
              THEN Err(ERR_SCHEMA)
              ELSE Ok(<<TAG_INTEGER>> \o pack_q(n))
      [] br = "str" ->
           Then(str_encode_utf8(val.cps), LAMBDA raw :
           Then(validate_utf8_scalar(raw), LAMBDA u :
           Then(u32be(Len(raw)), LAMBDA n :
           Ok(<<TAG_STRING>> \o n \o raw))))
      [] br = "bytes" ->
           Then(u32be(Len(val.bs)), LAMBDA n :
           Ok(<<TAG_BYTES>> \o n \o val.bs))
      [] OTHER -> Err(ERR_SCHEMA)

\* The dict branch between the limit checks and the entry loop: key
\* collection, sort, order sweep and count; the sorted entries or the error.
EncodeMapPrepare(val) ==
    Then(CollectItems(val.entries, 1, <<>>), LAMBDA collected :
    LET items == sort_items(collected)
        keys == [i \in 1..Len(items) |-> items[i][1]]
    IN Then(ensure_sorted_unique(keys), LAMBDA u :
       Then(u32be(Len(items)), LAMBDA n : Ok(items))))

\* mcf_encode_value(val, depth).  The branches of the source are the arms of
\* one CASE, taken in order, and the loops recurse through a LET only: the
\* evaluation stack grows with the nesting of the value.
RECURSIVE mcf_encode_value(_, _)
RECURSIVE EncodeListItems(_, _, _, _)
RECURSIVE EncodeMapItems(_, _, _, _)

\* for item in val: parts.append(mcf_encode_value(item, depth + 1))
EncodeListItems(items, i, depth, acc) ==
    IF i > Len(items) THEN Ok(acc)
    ELSE LET e == mcf_encode_value(items[i], depth + 1)
         IN IF e.ok THEN EncodeListItems(items, i + 1, depth, acc \o e.v)
            ELSE e

\* for kb, v in items: the key framed as STRING, then the value.
EncodeMapItems(items, i, depth, acc) ==
    IF i > Len(items) THEN Ok(acc)
    ELSE LET kb == items[i][1]
             n == u32be(Len(kb))
             e == IF n.ok THEN mcf_encode_value(items[i][2], depth + 1) ELSE n
         IN IF e.ok
            THEN EncodeMapItems(items, i + 1, depth,
                                acc \o <<TAG_STRING>> \o n.v \o kb \o e.v)
            ELSE e

mcf_encode_value(val, depth) ==
    CASE encode_branch(val) = "list" /\ depth + 1 > MAX_DEPTH ->
           Err(ERR_LIMIT_DEPTH)
      [] encode_branch(val) = "list" /\ Len(val.items) > MAX_LIST_ENTRIES ->
           Err(ERR_LIMIT_SIZE)
      [] encode_branch(val) = "list" ->
           EncodeListItems(val.items, 1, depth,
                           <<TAG_LIST>> \o u32be(Len(val.items)).v)
      [] encode_branch(val) = "dict" /\ depth + 1 > MAX_DEPTH ->
           Err(ERR_LIMIT_DEPTH)
      [] encode_branch(val) = "dict" /\ Len(val.entries) > MAX_MAP_ENTRIES ->
           Err(ERR_LIMIT_SIZE)
      [] encode_branch(val) = "dict" ->
           LET p == EncodeMapPrepare(val)
           IN IF p.ok
              THEN EncodeMapItems(p.v, 1, depth,
                                  <<TAG_MAP>> \o u32be(Len(p.v)).v)
              ELSE p
      [] OTHER -> EncodeScalar(val, encode_branch(val))

(* ----------------------------- MID composer --------------------------- *)

\* hashlib.sha256(data).hexdigest(), kept as an uninterpreted injective
\* term over the hashed bytes (no collisions).
sha256_hex(data) == [sha256 |-> data]

\* "map1:" + hex
Mid(data) == <<"map1:", sha256_hex(data)>>

\* The size test with >= for >: a result of exactly MAX_CANON_BYTES is
\* turned away.
canon_bytes_from_value_limit_exclusive(val) ==
    Then(mcf_encode_value(val, 0), LAMBDA body :
    LET canon == CANON_HDR \o body
    IN IF Len(canon) >= MAX_CANON_BYTES THEN Err(ERR_LIMIT_SIZE)
       ELSE Ok(canon))

canon_bytes_from_value(val) ==
    Then(mcf_encode_value(val, 0), LAMBDA body :
    LET canon == CANON_HDR \o body
    IN IF Len(canon) > MAX_CANON_BYTES THEN Err(ERR_LIMIT_SIZE)
       ELSE Ok(canon))

mid_from_value(val) ==
    Then(canon_bytes_from_value(val), LAMBDA canon : Ok(Mid(canon)))

(* ----------------------------- MCF decode ---------------------------- *)

\* buf[off] of the source (offsets count from 0).
At(buf, off) == buf[off + 1]

\* buf[a:b] of the source, clipped to the buffer as Python slices are.
Slice(buf, a, b) == SubSeq(buf, a + 1, IF b < Len(buf) THEN b ELSE Len(buf))

\* The big-endian value of 4 bytes.  A value of 2^31 or more is kept as
\* 2^31 - 1: the source compares it only with 65,535 and with lengths of
\* buffers of at most MAX_CANON_BYTES, and both comparisons come out the same.
U32(b) ==
    IF b[1] >= 128 THEN 2147483647
    ELSE b[1] * 16777216 + b[2] * 65536 + b[3] * 256 + b[4]

\* _read_u32be(buf, off): the value, or ERR_CANON_MCF ("truncated u32");
\* the new offset is off + 4.
read_u32be(buf, off) ==
    IF off + 4 > Len(buf) THEN Err(ERR_CANON_MCF)
    ELSE Ok(U32(Slice(buf, off, off + 4)))

\* A decoded value and the offset after it.
Dec(val, off) == Ok([val |-> val, off |-> off])

\* The STRING branch, off after the tag.
DecodeString(buf, off) ==
    LET n == read_u32be(buf, off)
    IN IF ~n.ok THEN n
       ELSE IF n.v > Len(buf) - (off + 4) THEN Err(ERR_CANON_MCF)
       ELSE LET raw == Slice(buf, off + 4, off + 4 + n.v)
            IN Then(validate_utf8_scalar(raw), LAMBDA u :
               Dec(VStr(bytes_decode_utf8(raw).v), off + 4 + n.v))

\* The BYTES branch, off after the tag.
DecodeBytes(buf, off) ==
    LET n == read_u32be(buf, off)
    IN IF ~n.ok THEN n
       ELSE IF n.v > Len(buf) - (off + 4) THEN Err(ERR_CANON_MCF)
       ELSE Dec(VBytes(Slice(buf, off + 4, off + 4 + n.v)), off + 4 + n.v)

\* A BOOLEAN branch that takes every payload but 00 for True.
DecodeBoolean_any_payload(buf, off) ==
    IF off >= Len(buf) THEN Err(ERR_CANON_MCF)
    ELSE Dec(VBool(At(buf, off) # 0), off + 1)

\* The BOOLEAN branch, off after the tag.
DecodeBoolean(buf, off) ==
    IF off >= Len(buf) THEN Err(ERR_CANON_MCF)
    ELSE IF At(buf, off) \notin {0, 1} THEN Err(ERR_CANON_MCF)
    ELSE Dec(VBool(At(buf, off) = 1), off + 1)

\* A bug: the bound of the 8-byte read off by one.
DecodeInteger_off_by_one(buf, off) ==
    IF off + 8 >= Len(buf) THEN Err(ERR_CANON_MCF)
    ELSE Dec(unpack_q(Slice(buf, off, off + 8)), off + 8)

\* The INTEGER branch, off after the tag.
DecodeInteger(buf, off) ==
    IF off + 8 > Len(buf) THEN Err(ERR_CANON_MCF)
    ELSE Dec(unpack_q(Slice(buf, off, off + 8)), off + 8)

\* _mcf_decode_one(buf, off, depth).  As in the encoder the branches are the
\* arms of one CASE, taken in order, and the loops recurse through a LET.
RECURSIVE mcf_decode_one(_, _, _)
RECURSIVE DecodeListItems(_, _, _, _, _)
RECURSIVE DecodeMapEntries(_, _, _, _, _, _)

\* for _ in range(count): item, off = _mcf_decode_one(buf, off, depth + 1)
DecodeListItems(buf, off, depth, remaining, arr) ==
    IF remaining = 0 THEN Dec(VList(arr), off)
    ELSE LET r == mcf_decode_one(buf, off, depth + 1)
         IN IF r.ok
            THEN DecodeListItems(buf, r.v.off, depth, remaining - 1,
                                 Append(arr, r.v.val))
            ELSE r

\* The key of the entry at off: a STRING decoded by _mcf_decode_one.
MapKeyAt(buf, off) == DecodeString(buf, off + 1)

\* One pass of the entry loop of the MAP branch; prev is <<>> (None) or
\* <<prev_key>>.
DecodeMapEntries(buf, off, depth, remaining, prev, items) ==
    CASE remaining = 0 -> Dec(VDict(items), off)
      [] off >= Len(buf) -> Err(ERR_CANON_MCF)
      [] At(buf, off) # TAG_STRING -> Err(ERR_SCHEMA)
      [] ~MapKeyAt(buf, off).ok -> MapKeyAt(buf, off)
      [] ~isinstance(MapKeyAt(buf, off).v.val, "str") -> Err(ERR_SCHEMA)
      [] prev # <<>> /\ key_cmp(prev[1], Utf8OfCps(MapKeyAt(buf, off).v.val.cps)) = 0 ->
           Err(ERR_DUP_KEY)
      [] prev # <<>> /\ key_cmp(prev[1], Utf8OfCps(MapKeyAt(buf, off).v.val.cps)) > 0 ->
           Err(ERR_KEY_ORDER)
      [] OTHER ->
           LET k == MapKeyAt(buf, off).v
               r == mcf_decode_one(buf, k.off, depth + 1)
           IN IF r.ok
              THEN DecodeMapEntries(buf, r.v.off, depth, remaining - 1,
                                    <<Utf8OfCps(k.val.cps)>>,
                                    Append(items, <<k.val, r.v.val>>))
              ELSE r

mcf_decode_one(buf, off, depth) ==
    CASE off >= Len(buf) -> Err(ERR_CANON_MCF)
      [] At(buf, off) = TAG_STRING -> DecodeString(buf, off + 1)
      [] At(buf, off) = TAG_BYTES -> DecodeBytes(buf, off + 1)
      [] At(buf, off) = TAG_LIST /\ depth + 1 > MAX_DEPTH ->
           Err(ERR_LIMIT_DEPTH)
      [] At(buf, off) = TAG_LIST /\ ~read_u32be(buf, off + 1).ok ->
           read_u32be(buf, off + 1)
      [] At(buf, off) = TAG_LIST
           /\ read_u32be(buf, off + 1).v > MAX_LIST_ENTRIES ->
           Err(ERR_LIMIT_SIZE)
      [] At(buf, off) = TAG_LIST ->
           DecodeListItems(buf, off + 5, depth,
                           read_u32be(buf, off + 1).v, <<>>)
      [] At(buf, off) = TAG_MAP /\ depth + 1 > MAX_DEPTH ->
           Err(ERR_LIMIT_DEPTH)
      [] At(buf, off) = TAG_MAP /\ ~read_u32be(buf, off + 1).ok ->
           read_u32be(buf, off + 1)
      [] At(buf, off) = TAG_MAP
           /\ read_u32be(buf, off + 1).v > MAX_MAP_ENTRIES ->
           Err(ERR_LIMIT_SIZE)
      [] At(buf, off) = TAG_MAP ->
           DecodeMapEntries(buf, off + 5, depth,
                            read_u32be(buf, off + 1).v, <<>>, <<>>)
      [] At(buf, off) = TAG_BOOLEAN -> DecodeBoolean(buf, off + 1)
      [] At(buf, off) = TAG_INTEGER -> DecodeInteger(buf, off + 1)
      [] OTHER -> Err(ERR_CANON_MCF)

\* canon.startswith(CANON_HDR)
StartsWith(b, prefix) ==
    Len(b) >= Len(prefix) /\ SubSeq(b, 1, Len(prefix)) = prefix

mid_from_canon_bytes(canon) ==
    IF Len(canon) > MAX_CANON_BYTES THEN Err(ERR_LIMIT_SIZE)
    ELSE IF ~StartsWith(canon, CANON_HDR) THEN Err(ERR_CANON_HDR)
    ELSE LET r == mcf_decode_one(canon, Len(CANON_HDR), 0)
         IN IF ~r.ok THEN r
            ELSE IF r.v.off # Len(canon) THEN Err(ERR_CANON_MCF)
            ELSE Ok(Mid(canon))

(* --------------------------- _projection.py --------------------------- *)

\* full_project(descriptor): the descriptor itself is returned.
full_project(descriptor) == descriptor

(* ----------------------------- __init__.py ---------------------------- *)

mid_full(descriptor) == mid_from_value(full_project(descriptor))

canonical_bytes_full(descriptor) ==
    canon_bytes_from_value(full_project(descriptor))

(* ----------------------- inputs of the value API ---------------------- *)

\* The sequences over S of length at most n.
SeqsUpTo(S, n) == UNION {[1..k -> S] : k \in 0..n}

\* v wrapped in k lists: [[...[v]...]].
RECURSIVE NestList(_, _)
NestList(k, v) == IF k = 0 THEN v ELSE VList(<<NestList(k - 1, v)>>)

\* The numbers of wrapping containers around the depth limit.
DeepNests == {MAX_DEPTH - 1, MAX_DEPTH, MAX_DEPTH + 1}

Bools == {VBool(TRUE), VBool(FALSE)}

\* 0, 1, -1, 42, 255, 256, -128, -256, 2^63 - 1, -2^63, -(2^63 - 1),
\* 2^63, -2^63 - 1, 2^64, -2^64.
Ints ==
    { VInt(FALSE, <<>>), VInt(FALSE, <<1>>), VInt(TRUE, <<1>>),
      VInt(FALSE, <<42>>), VInt(FALSE, <<255>>), VInt(FALSE, <<1, 0>>),
      VInt(TRUE, <<128>>), VInt(TRUE, <<1, 0>>),
      INT64_MAX, INT64_MIN,
      VInt(TRUE, <<127, 255, 255, 255, 255, 255, 255, 255>>),
      VInt(FALSE, <<128, 0, 0, 0, 0, 0, 0, 0>>),
      VInt(TRUE, <<128, 0, 0, 0, 0, 0, 0, 1>>),
      VInt(FALSE, <<1, 0, 0, 0, 0, 0, 0, 0, 0>>),
      VInt(TRUE, <<1, 0, 0, 0, 0, 0, 0, 0, 0>>) }

\* "", "a", "b", "aa", "true", "42", "0", "1", U+0000, U+00E9, U+20AC,
\* U+FFFF, U+10000, U+1F600.
Strs ==
    { VStr(<<>>), VStr(<<97>>), VStr(<<98>>), VStr(<<97, 97>>),
      VStr(<<116, 114, 117, 101>>), VStr(<<52, 50>>), VStr(<<48>>),
      VStr(<<49>>), VStr(<<0>>), VStr(<<233>>), VStr(<<8364>>),
      VStr(<<65535>>), VStr(<<65536>>), VStr(<<128512>>) }

\* Strings holding a lone surrogate: "\ud800", "a\udfff".
SurrogateStrs == {VStr(<<55296>>), VStr(<<97, 57343>>)}

\* b"", b"\x00", b"a", b"\xff", and bytes that spell a framed STRING.
Byteses ==
    { VBytes(<<>>), VBytes(<<0>>), VBytes(<<97>>), VBytes(<<255>>),
      VBytes(<<1, 0, 0, 0, 1, 97>>) }

\* Host values outside the six variants: None, 1.0, a tuple.
Unsupported ==
    { VNone, [t |-> "float", repr |-> "1.0"], [t |-> "tuple", elems |-> <<>>] }

\* The elements of the generated lists.
ListElems ==
    { VBool(TRUE), VBool(FALSE), VInt(FALSE, <<1>>), VInt(FALSE, <<>>),
      VStr(<<97>>), VBytes(<<97>>), VList(<<>>), VDict(<<>>) }

Lists == {VList(s) : s \in SeqsUpTo(ListElems, MaxEntries)}

\* The keys of the generated dicts: "a", "b", "aa", "", U+00E9, U+FFFF,
\* U+10000.
DictKeys ==
    { VStr(<<97>>), VStr(<<98>>), VStr(<<97, 97>>), VStr(<<>>), VStr(<<233>>),
      VStr(<<65535>>), VStr(<<65536>>) }

\* The values of the generated dicts: True, 1, "true".
DictVals == {VBool(TRUE), VInt(FALSE, <<1>>), VStr(<<116, 114, 117, 101>>)}

\* A dict holds each key once; its entries are kept in insertion order.
Dicts ==
    { VDict(s) : s \in { s \in SeqsUpTo(DictKeys \X DictVals, MaxEntries) :
                         \A i, j \in 1..Len(s) : i # j => s[i][1] # s[j][1] } }

\* Containers inside containers, the inner dicts in both insertion orders:
\* [[True], {"b": 1, "a": "a"}], {"k": {"b": 1, "a": True}, "j": [1, 0]},
\* {"k": {"a": True, "b": 1}, "j": [1, 0]}, [{"é": 1, "a": 2}], [[[]]],
\* {"k": True}, {"k": "true"}, [True, False, 1].
Nested ==
    { VList(<< VList(<<VBool(TRUE)>>),
               VDict(<< <<VStr(<<98>>), VInt(FALSE, <<1>>)>>,
                        <<VStr(<<97>>), VStr(<<97>>)>> >>) >>),
      VDict(<< <<VStr(<<107>>),
                 VDict(<< <<VStr(<<98>>), VInt(FALSE, <<1>>)>>,
                          <<VStr(<<97>>), VBool(TRUE)>> >>)>>,
               <<VStr(<<106>>),
                 VList(<<VInt(FALSE, <<1>>), VInt(FALSE, <<>>)>>)>> >>),
      VDict(<< <<VStr(<<107>>),
                 VDict(<< <<VStr(<<97>>), VBool(TRUE)>>,
                          <<VStr(<<98>>), VInt(FALSE, <<1>>)>> >>)>>,
               <<VStr(<<106>>),
                 VList(<<VInt(FALSE, <<1>>), VInt(FALSE, <<>>)>>)>> >>),
      VList(<< VDict(<< <<VStr(<<233>>), VInt(FALSE, <<1>>)>>,
                        <<VStr(<<97>>), VInt(FALSE, <<2>>)>> >>) >>),
      VList(<<VList(<<VList(<<>>)>>)>>),
      VDict(<< <<VStr(<<107>>), VBool(TRUE)>> >>),
      VDict(<< <<VStr(<<107>>), VStr(<<116, 114, 117, 101>>)>> >>),
      VList(<<VBool(TRUE), VBool(FALSE), VInt(FALSE, <<1>>)>>) }

\* Containers that hold something illegal: {1: True}, {"a": True, 1: 1},
\* {"a": None}, [1.0], [2^63], {"a": -2^63 - 1}, {"\ud800": 1}, ["\ud800"],
\* {"a": [None]}, {"b": None, 1: 1}.
Illegal ==
    { VDict(<< <<VInt(FALSE, <<1>>), VBool(TRUE)>> >>),
      VDict(<< <<VStr(<<97>>), VBool(TRUE)>>,
               <<VInt(FALSE, <<1>>), VInt(FALSE, <<1>>)>> >>),
      VDict(<< <<VStr(<<97>>), VNone>> >>),
      VList(<< [t |-> "float", repr |-> "1.0"] >>),
      VList(<< VInt(FALSE, <<128, 0, 0, 0, 0, 0, 0, 0>>) >>),
      VDict(<< <<VStr(<<97>>), VInt(TRUE, <<128, 0, 0, 0, 0, 0, 0, 1>>)>> >>),
      VDict(<< <<VStr(<<55296>>), VInt(FALSE, <<1>>)>> >>),
      VList(<< VStr(<<55296>>) >>),
      VDict(<< <<VStr(<<97>>), VList(<<VNone>>)>> >>),
      VDict(<< <<VStr(<<98>>), VNone>>,
               <<VInt(FALSE, <<1>>), VInt(FALSE, <<1>>)>> >>) }

\* Nests around the depth limit: k lists around True, around {"a": 1} and
\* around an empty list.
Deep ==
    {NestList(k, VBool(TRUE)) : k \in DeepNests}
    \cup {NestList(k, VDict(<< <<VStr(<<97>>), VInt(FALSE, <<1>>)>> >>)) :
            k \in DeepNests}
    \cup {NestList(k, VList(<<>>)) : k \in DeepNests}

Values ==
    Bools \cup Ints \cup Strs \cup SurrogateStrs \cup Byteses \cup Unsupported
    \cup Lists \cup Dicts \cup Nested \cup Illegal \cup Deep

(* --------------------- the value API as a state machine --------------- *)

\* No call made yet.
NoOutcome == [ok |-> FALSE, v |-> "none"]

Init ==
    /\ call = "init"
    /\ arg \in Values
    /\ aux = <<>>
    /\ out = NoOutcome

CanonicalBytesFull ==
    /\ call = "init"
    /\ call' = "canonical_bytes_full"
    /\ out' = canonical_bytes_full(arg)
    /\ UNCHANGED <<arg, aux>>

MidFull ==
    /\ call = "init"
    /\ call' = "mid_full"
    /\ out' = mid_full(arg)
    /\ UNCHANGED <<arg, aux>>

\* The bytes canonical_bytes_full returned are handed to mid_from_canon_bytes;
\* aux keeps them.
RoundTrip ==
    /\ call = "canonical_bytes_full"
    /\ out.ok
    /\ call' = "round_trip"
    /\ aux' = out.v
    /\ out' = mid_from_canon_bytes(out.v)
    /\ UNCHANGED arg

Next == CanonicalBytesFull \/ MidFull \/ RoundTrip

Spec == Init /\ [][Next]_vars

(* ------------------- vocabulary of the properties --------------------- *)

\* The call returned x / raised code.
Returns(o, x) == o.ok /\ o.v = x
Raises(o, code) == ~o.ok /\ o.v = code

\* -2^63 <= n <= 2^63 - 1, read off the magnitude.
InInt64(n) ==
    \/ Len(n.mag) < 8
    \/ Len(n.mag) = 8 /\ n.mag[1] < 128
    \/ n.neg /\ n.mag = <<128, 0, 0, 0, 0, 0, 0, 0>>

MaxOf(S) == IF S = {} THEN 0 ELSE CHOOSE m \in S : \A x \in S : x <= m

\* The number of containers on the longest path from the root to a leaf.
RECURSIVE Height(_)
Height(v) ==
    CASE v.t = "list" ->
           1 + MaxOf({Height(v.items[i]) : i \in 1..Len(v.items)})
      [] v.t = "dict" ->
           1 + MaxOf({Height(v.entries[i][2]) : i \in 1..Len(v.entries)})
      [] OTHER -> 0

\* One of the six variants all the way down: strings of scalar values,
\* integers in int64, string keys.
RECURSIVE LegalShape(_)
LegalShape(v) ==
    CASE v.t = "bool" -> TRUE
      [] v.t = "int" -> InInt64(v)
      [] v.t = "str" -> \A i \in 1..Len(v.cps) : v.cps[i] \notin 55296..57343
      [] v.t = "bytes" -> TRUE
      [] v.t = "list" -> \A i \in 1..Len(v.items) : LegalShape(v.items[i])
      [] v.t = "dict" ->
           \A i \in 1..Len(v.entries) :
              /\ v.entries[i][1].t = "str"
              /\ LegalShape(v.entries[i][1])
              /\ LegalShape(v.entries[i][2])
      [] OTHER -> FALSE

\* A legal canonical value (all generated values are far below the entry
\* and size limits).
Legal(v) == LegalShape(v) /\ Height(v) <= 32

\* a before b in the order of section 3.5: at the first difference the
\* octet of a is the smaller one as a number in 0..255, or a is a proper
\* prefix of b.
UnsignedLess(a, b) ==
    \E i \in 1..Len(b) :
       /\ i <= Len(a) + 1
       /\ \A j \in 1..(i - 1) : a[j] = b[j]
       /\ (i = Len(a) + 1 \/ a[i] < b[i])

\* The UTF-8 form of the code points the inputs use, from the Unicode tables.
RefUtf8(cp) ==
    CASE cp < 128 -> <<cp>>
      [] cp = 233 -> <<195, 169>>
      [] cp = 8364 -> <<226, 130, 172>>
      [] cp = 65535 -> <<239, 191, 191>>
      [] cp = 65536 -> <<240, 144, 128, 128>>
      [] cp = 128512 -> <<240, 159, 152, 128>>

RECURSIVE RefUtf8s(_)
RefUtf8s(cps) ==
    IF cps = <<>> THEN <<>> ELSE RefUtf8(Head(cps)) \o RefUtf8s(Tail(cps))

\* n as four octets, the most significant first.
BE32(n) == [i \in 1..4 |-> (n \div (256 ^ (4 - i))) % 256]

\* The arrangements of a sequence.
PermsOf(s) ==
    {[i \in 1..Len(s) |-> s[p[i]]] : p \in Permutations(1..Len(s))}

\* The entries of a legal MAP arranged with strictly ascending keys.
Ascending(entries) ==
    CHOOSE s \in PermsOf(entries) :
       \A i \in 1..(Len(s) - 1) :
          UnsignedLess(RefUtf8s(s[i][1].cps), RefUtf8s(s[i + 1][1].cps))

\* bs - 1 on a fixed width, bs not all zero.
RECURSIVE SubOne(_)
SubOne(bs) ==
    LET n == Len(bs)
    IN IF bs[n] > 0 THEN [bs EXCEPT ![n] = bs[n] - 1]
       ELSE Append(SubOne(SubSeq(bs, 1, n - 1)), 255)

\* The 8 octets of n in two's complement: n itself for n >= 0, and for
\* n < 0 the complement of |n| - 1.
RefInt64(n) ==
    LET padded == [i \in 1..(8 - Len(n.mag)) |-> 0] \o n.mag
    IN IF n.neg THEN [i \in 1..8 |-> 255 - SubOne(padded)[i]] ELSE padded

\* MCF(v) of section 3 for a legal v, written down from the table of the
\* six variants; the entries of a MAP in ascending key order.
RECURSIVE RefMCF(_)
RECURSIVE RefCat(_, _)
RECURSIVE RefEntries(_, _)

RefString(cps) == <<1>> \o BE32(Len(RefUtf8s(cps))) \o RefUtf8s(cps)

RefCat(items, i) ==
    IF i > Len(items) THEN <<>>
    ELSE RefMCF(items[i]) \o RefCat(items, i + 1)

RefEntries(entries, i) ==
    IF i > Len(entries) THEN <<>>
    ELSE RefString(entries[i][1].cps) \o RefMCF(entries[i][2])
         \o RefEntries(entries, i + 1)

RefMCF(v) ==
    CASE v.t = "str" -> RefString(v.cps)
      [] v.t = "bytes" -> <<2>> \o BE32(Len(v.bs)) \o v.bs
      [] v.t = "list" -> <<3>> \o BE32(Len(v.items)) \o RefCat(v.items, 1)
      [] v.t = "dict" ->
           <<4>> \o BE32(Len(v.entries))
           \o RefEntries(Ascending(v.entries), 1)
      [] v.t = "bool" -> <<5, IF v.b THEN 1 ELSE 0>>
      [] v.t = "int" -> <<6>> \o RefInt64(v)

\* The dicts inside v, v itself included.
RECURSIVE SubDicts(_)
SubDicts(v) ==
    CASE v.t = "list" -> UNION {SubDicts(v.items[i]) : i \in 1..Len(v.items)}
      [] v.t = "dict" ->
           {v} \cup UNION {SubDicts(v.entries[i][2]) : i \in 1..Len(v.entries)}
      [] OTHER -> {}

\* The values that differ from v only in the insertion order of the entries
\* of the dicts inside it.
RECURSIVE PermVariants(_)
RECURSIVE ItemVariants(_, _)
RECURSIVE EntryVariants(_, _)

ItemVariants(items, i) ==
    IF i > Len(items) THEN {<<>>}
    ELSE {<<h>> \o r : h \in PermVariants(items[i]),
                       r \in ItemVariants(items, i + 1)}

EntryVariants(entries, i) ==
    IF i > Len(entries) THEN {<<>>}
    ELSE {<< <<entries[i][1], h>> >> \o r :
             h \in PermVariants(entries[i][2]),
             r \in EntryVariants(entries, i + 1)}

PermVariants(v) ==
    CASE v.t = "list" -> {VList(s) : s \in ItemVariants(v.items, 1)}
      [] v.t = "dict" ->
           {VDict(s) : s \in UNION {EntryVariants(p, 1) :
                                      p \in PermsOf(v.entries)}}
      [] OTHER -> {v}

\* The same canonical value: equal variant and content, the entries of a
\* MAP in any order.
RECURSIVE CanonEq(_, _)
CanonEq(a, b) ==
    CASE a.t # b.t -> FALSE
      [] a.t = "list" ->
           /\ Len(a.items) = Len(b.items)
           /\ \A i \in 1..Len(a.items) : CanonEq(a.items[i], b.items[i])
      [] a.t = "dict" ->
           /\ Len(a.entries) = Len(b.entries)
           /\ \A i \in 1..Len(a.entries) :
                 \E j \in 1..Len(b.entries) :
                    /\ a.entries[i][1] = b.entries[j][1]
                    /\ CanonEq(a.entries[i][2], b.entries[j][2])
      [] OTHER -> a = b

\* B + |n| = 2^64 for two groups of 8 octets: every octet of the sum is zero
\* and a carry leaves the top.
RECURSIVE CarryInto(_, _, _)
CarryInto(a, b, i) ==
    IF i = 8 THEN 0
    ELSE (a[i + 1] + b[i + 1] + CarryInto(a, b, i + 1)) \div 256

SumsTo2p64(a, b) ==
    /\ \A i \in 1..8 : (a[i] + b[i] + CarryInto(a, b, i)) % 256 = 0
    /\ (a[1] + b[1] + CarryInto(a, b, 1)) \div 256 = 1

(* ------------------- properties of the value API ---------------------- *)

\* C1 (round trip): whenever canonical_bytes_full(v) succeeds, the decoder
\* accepts the bytes it returned, mid_from_canon_bytes of them equals
\* mid_full(v), and both are "map1:" followed by the SHA-256 of exactly those
\* bytes.
C1_RoundTrip ==
    call = "round_trip" =>
       /\ Returns(canonical_bytes_full(arg), aux)
       /\ out.ok
       /\ mid_full(arg).ok
       /\ out.v = mid_full(arg).v
       /\ out.v = <<"map1:", sha256_hex(aux)>>

\* A round trip made on a dict of two entries given in descending key order.
C1_Witness ==
    /\ call = "round_trip"
    /\ out.ok
    /\ arg = VDict(<< <<VStr(<<98>>), VInt(FALSE, <<1>>)>>,
                      <<VStr(<<97>>), VBool(TRUE)>> >>)

\* The entries of dict d as the encoder emits them: the bytes of d are the
\* tag, the count and, in strictly ascending key order, each key framed as a
\* STRING followed by the bytes of its value.
RECURSIVE EmittedEntries(_, _)
EmittedEntries(entries, i) ==
    IF i > Len(entries) THEN <<>>
    ELSE RefString(entries[i][1].cps)
         \o mcf_encode_value(entries[i][2], 1).v
         \o EmittedEntries(entries, i + 1)

EmittedAscending(d) ==
    Returns(mcf_encode_value(d, 0),
            <<4>> \o BE32(Len(d.entries))
            \o EmittedEntries(Ascending(d.entries), 1))

\* The order the encoder's sort leaves the collected entries of d in is the
\* strictly ascending order of _key_cmp.
SortIsKeyCmpOrder(d) ==
    LET s == sort_items(CollectItems(d.entries, 1, <<>>).v)
    IN \A i \in 1..(Len(s) - 1) :
          /\ key_cmp(s[i][1], s[i + 1][1]) = -1
          /\ UnsignedLess(s[i][1], s[i + 1][1])

\* C2 (reordering invariance): for a legal value, every MAP inside it at any
\* level is emitted with its entries in strictly ascending order of the UTF-8
\* key bytes compared as unsigned octets, shorter first on a common prefix;
\* the encoder's sort yields the order of _key_cmp, also for keys with octets
\* of 0x80 and above; and every permutation of the entries of the MAPs gives
\* the same CANON_BYTES.
C2_ReorderingInvariance ==
    (call = "canonical_bytes_full" /\ Legal(arg)) =>
       /\ out.ok
       /\ \A d \in SubDicts(arg) : EmittedAscending(d) /\ SortIsKeyCmpOrder(d)
       /\ \A w \in PermVariants(arg) :
             Returns(canonical_bytes_full(w), out.v)

\* The dict {"é": .., "a": ..}, inserted in descending order with a key octet
\* above 0x7F, has been encoded.
C2_Witness ==
    /\ call = "canonical_bytes_full"
    /\ out.ok
    /\ arg.t = "dict"
    /\ Len(arg.entries) = 2
    /\ arg.entries[1][1] = VStr(<<233>>)
    /\ arg.entries[2][1] = VStr(<<97>>)

\* C3 (MCF framing): for every legal value v, canonical_bytes_full(v) is the
\* five octets 4D 41 50 31 00 followed by MCF(v): STRING 01 + uint32be length
\* + UTF-8, BYTES 02 + uint32be length + octets, LIST 03 + uint32be count +
\* elements in order, MAP 04 + uint32be count + per entry the key as a full
\* STRING and the value, BOOLEAN 05 01 / 05 00.
C3_Framing ==
    (call = "canonical_bytes_full" /\ Legal(arg)) =>
       Returns(out, <<77, 65, 80, 49, 0>> \o RefMCF(arg))

\* {"k": {"b": 1, "a": True}, "j": [1, 0]} has been encoded.
C3_Witness ==
    /\ call = "canonical_bytes_full"
    /\ out.ok
    /\ arg.t = "dict"
    /\ Len(arg.entries) = 2
    /\ arg.entries[1][2].t = "dict"
    /\ arg.entries[2][2].t = "list"

\* C4 (INTEGER encoding): for a host integer n, canonical_bytes_full(n)
\* succeeds iff -2^63 <= n <= 2^63 - 1 and then is MAP1\0, 06 and the 8
\* octets of n in big-endian two's complement (n itself for n >= 0, the
\* octets B with B + |n| = 2^64 for n < 0; eight 00 for 0, eight FF for -1,
\* 80 and seven 00 for -2^63); outside the range canonical_bytes_full and
\* mid_full raise ERR_SCHEMA.
C4_IntegerEncoding ==
    (call \in {"canonical_bytes_full", "mid_full"} /\ arg.t = "int") =>
       /\ out.ok <=> InInt64(arg)
       /\ ~out.ok => out.v = ERR_SCHEMA
       /\ (call = "canonical_bytes_full" /\ out.ok) =>
             /\ Len(out.v) = 14
             /\ SubSeq(out.v, 1, 6) = <<77, 65, 80, 49, 0, 6>>
             /\ LET B == SubSeq(out.v, 7, 14)
                    M == [i \in 1..(8 - Len(arg.mag)) |-> 0] \o arg.mag
                IN IF arg.neg THEN SumsTo2p64(B, M) ELSE B = M
             /\ arg = VInt(FALSE, <<>>) =>
                   SubSeq(out.v, 7, 14) = <<0, 0, 0, 0, 0, 0, 0, 0>>
             /\ arg = VInt(TRUE, <<1>>) =>
                   SubSeq(out.v, 7, 14)
                     = <<255, 255, 255, 255, 255, 255, 255, 255>>
             /\ arg = VInt(TRUE, <<128, 0, 0, 0, 0, 0, 0, 0>>) =>
                   SubSeq(out.v, 7, 14) = <<128, 0, 0, 0, 0, 0, 0, 0>>

\* -2^63 has been encoded.
C4_Witness ==
    /\ call = "canonical_bytes_full"
    /\ out.ok
    /\ arg = VInt(TRUE, <<128, 0, 0, 0, 0, 0, 0, 0>>)

\* The values C5 sets against each other: True, False, 1, 0, 42, "true",
\* "false", "1", "0", "42", [True, False], [False, True], {"k": True},
\* {"k": "true"}, {"k": 1}, "a", b"a", "", b"", [], {}, [1], [True], [[]],
\* b"1", [""].
SeparationSet ==
    { VBool(TRUE), VBool(FALSE), VInt(FALSE, <<1>>), VInt(FALSE, <<>>),
      VInt(FALSE, <<42>>), VStr(<<116, 114, 117, 101>>),
      VStr(<<102, 97, 108, 115, 101>>), VStr(<<49>>), VStr(<<48>>),
      VStr(<<52, 50>>),
      VList(<<VBool(TRUE), VBool(FALSE)>>),
      VList(<<VBool(FALSE), VBool(TRUE)>>),
      VDict(<< <<VStr(<<107>>), VBool(TRUE)>> >>),
      VDict(<< <<VStr(<<107>>), VStr(<<116, 114, 117, 101>>)>> >>),
      VDict(<< <<VStr(<<107>>), VInt(FALSE, <<1>>)>> >>),
      VStr(<<97>>), VBytes(<<97>>), VStr(<<>>), VBytes(<<>>),
      VList(<<>>), VDict(<<>>), VList(<<VInt(FALSE, <<1>>)>>),
      VList(<<VBool(TRUE)>>), VList(<<VList(<<>>)>>), VBytes(<<49>>),
      VList(<<VStr(<<>>)>>) }

\* C5 (variant separation): a bool is encoded with tag 05 and its payload,
\* never as INTEGER; a value that encodes to the same CANON_BYTES as another
\* is the same canonical value (same variant, same content); and the bytes
\* determine the value: decoding them gives the value back.
C5_VariantSeparation ==
    (call = "canonical_bytes_full" /\ out.ok) =>
       /\ arg.t = "bool" =>
             out.v = <<77, 65, 80, 49, 0, 5, IF arg.b THEN 1 ELSE 0>>
       /\ arg.t # "bool" => out.v[6] # 5
       /\ \A w \in SeparationSet :
             Returns(canonical_bytes_full(w), out.v) => CanonEq(w, arg)
       /\ LET d == mcf_decode_one(out.v, 5, 0)
          IN d.ok /\ CanonEq(d.v.val, arg)

\* True has been encoded.
C5_Witness ==
    /\ call = "canonical_bytes_full"
    /\ out.ok
    /\ arg = VBool(TRUE)

(* ------------------- inputs of mid_from_canon_bytes ------------------- *)

\* Wire trees: what a producer of CANON_BYTES may have written, well-formed
\* or not.  A STRING and a map key carry any octets, a BOOLEAN any payload
\* octet, and the entries of a MAP come in the order written.
WStr(bs) == [w |-> "string", bs |-> bs]
WBytes(bs) == [w |-> "bytes", bs |-> bs]
WList(items) == [w |-> "list", items |-> items]
WMap(entries) == [w |-> "map", entries |-> entries]
WBool(payload) == [w |-> "boolean", payload |-> payload]
WInt(bs) == [w |-> "integer", bs |-> bs]

\* The octets of a wire tree.
RECURSIVE Render(_)
RECURSIVE RenderItems(_, _)
RECURSIVE RenderEntries(_, _)

RenderItems(items, i) ==
    IF i > Len(items) THEN <<>>
    ELSE Render(items[i]) \o RenderItems(items, i + 1)

RenderEntries(entries, i) ==
    IF i > Len(entries) THEN <<>>
    ELSE <<1>> \o BE32(Len(entries[i][1])) \o entries[i][1]
         \o Render(entries[i][2]) \o RenderEntries(entries, i + 1)

Render(x) ==
    CASE x.w = "string" -> <<1>> \o BE32(Len(x.bs)) \o x.bs
      [] x.w = "bytes" -> <<2>> \o BE32(Len(x.bs)) \o x.bs
      [] x.w = "list" -> <<3>> \o BE32(Len(x.items)) \o RenderItems(x.items, 1)
      [] x.w = "map" ->
           <<4>> \o BE32(Len(x.entries)) \o RenderEntries(x.entries, 1)
      [] x.w = "boolean" -> <<5, x.payload>>
      [] x.w = "integer" -> <<6>> \o x.bs

\* The places of a wire tree written at offset off: where a tag stands, in
\* which role (root, element, key, value), and where a BOOLEAN payload stands.
Mark(pos, role, what) == [pos |-> pos, role |-> role, what |-> what]

RECURSIVE Marks(_, _, _)
RECURSIVE ItemMarks(_, _, _)
RECURSIVE EntryMarks(_, _, _)

ItemMarks(items, i, off) ==
    IF i > Len(items) THEN {}
    ELSE Marks(items[i], off, "element")
         \cup ItemMarks(items, i + 1, off + Len(Render(items[i])))

EntryMarks(entries, i, off) ==
    IF i > Len(entries) THEN {}
    ELSE {Mark(off, "key", "tag")}
         \cup Marks(entries[i][2], off + 5 + Len(entries[i][1]), "value")
         \cup EntryMarks(entries, i + 1,
                         off + 5 + Len(entries[i][1])
                         + Len(Render(entries[i][2])))

Marks(x, off, role) ==
    {Mark(off, role, "tag")}
    \cup CASE x.w = "list" -> ItemMarks(x.items, 1, off + 5)
           [] x.w = "map" -> EntryMarks(x.entries, 1, off + 5)
           [] x.w = "boolean" -> {Mark(off + 1, role, "payload")}
           [] OTHER -> {}

\* Key octets with what the Unicode standard says of them: "a", "b", "aa",
\* "", U+007F, U+00E9, U+FFFF are well-formed UTF-8; FF, C3 alone, the
\* overlong C0 80 and the encoded surrogate ED A0 80 are not.
WireKeys ==
    { [bs |-> <<97>>, utf8 |-> TRUE], [bs |-> <<98>>, utf8 |-> TRUE],
      [bs |-> <<97, 97>>, utf8 |-> TRUE], [bs |-> <<>>, utf8 |-> TRUE],
      [bs |-> <<127>>, utf8 |-> TRUE], [bs |-> <<195, 169>>, utf8 |-> TRUE],
      [bs |-> <<239, 191, 191>>, utf8 |-> TRUE],
      [bs |-> <<255>>, utf8 |-> FALSE], [bs |-> <<195>>, utf8 |-> FALSE],
      [bs |-> <<192, 128>>, utf8 |-> FALSE],
      [bs |-> <<237, 160, 128>>, utf8 |-> FALSE] }

WellFormedKey(bs) == \E k \in WireKeys : k.bs = bs /\ k.utf8

\* MAPs of at most MaxEntries entries, the keys in every order and with
\* repetitions, every value the BOOLEAN true.
WireMaps ==
    { WMap([i \in 1..Len(ks) |-> <<ks[i].bs, WBool(1)>>]) :
        ks \in SeqsUpTo(WireKeys, MaxEntries) }

\* MAPs below the root: as a list element and as a map value, with keys
\* ascending, descending, repeated and ill-formed.
WireNested ==
    UNION { { WList(<<WBool(0), inner>>),
              WMap(<< <<(<<97>>), inner>> >>),
              WMap(<< <<(<<97>>), WBool(1)>>, <<(<<98>>), inner>> >>) } :
            inner \in { WMap(<< <<(<<97>>), WBool(1)>>, <<(<<98>>), WBool(0)>> >>),
                        WMap(<< <<(<<98>>), WBool(1)>>, <<(<<97>>), WBool(0)>> >>),
                        WMap(<< <<(<<98>>), WBool(1)>>, <<(<<98>>), WBool(0)>> >>),
                        WMap(<< <<(<<255>>), WBool(1)>> >>) } }

\* Well-formed trees of every variant; the encodings that are cut short or
\* overwritten below are theirs.
WireSeeds ==
    { WBool(0), WBool(1), WStr(<<195, 169>>), WStr(<<>>), WBytes(<<0, 255>>),
      WInt(<<255, 255, 255, 255, 255, 255, 255, 254>>),
      WList(<<WStr(<<97>>), WList(<<>>)>>), WMap(<<>>),
      WMap(<< <<(<<97>>), WList(<<WBool(1), WInt(<<0, 0, 0, 0, 0, 0, 0, 1>>)>>)>>,
              <<(<<98>>), WMap(<< <<(<<97, 97>>), WStr(<<120>>)>> >>)>> >>),
      WMap(<< <<(<<97>>), WBool(1)>> >>) }

\* Octets that are no tag, and octets that are no BOOLEAN payload.
NonTags == {0, 7, 128, 255}
NonPayloads == {2, 128, 255}

\* Octets appended after the root value.
Trailers == {<<0>>, <<5, 1>>, <<1, 0, 0, 0, 0>>}

\* An input of mid_from_canon_bytes with the record of how it was made.
CanonInput(bytes, tree, kind, pos, role) ==
    [bytes |-> bytes, tree |-> tree, kind |-> kind, pos |-> pos, role |-> role]

Canon(tree) == CANON_HDR \o Render(tree)

\* 1-based indices into Canon(tree) of its tags and BOOLEAN payloads.
CanonMarks(tree) == Marks(tree, Len(CANON_HDR) + 1, "root")

PlainInputs ==
    { CanonInput(Canon(t), t, "plain", 0, "none") :
        t \in WireMaps \cup WireNested \cup WireSeeds }

TruncatedInputs ==
    UNION { { CanonInput(SubSeq(Canon(t), 1, n), t, "truncated", n, "none") :
                n \in Len(CANON_HDR)..(Len(Canon(t)) - 1) } : t \in WireSeeds }

BadTagInputs ==
    UNION { { CanonInput([Canon(t) EXCEPT ![mk.pos] = b], t, "bad tag",
                         mk.pos, mk.role) :
                mk \in {x \in CanonMarks(t) : x.what = "tag"}, b \in NonTags } :
            t \in WireSeeds }

BadPayloadInputs ==
    UNION { { CanonInput([Canon(t) EXCEPT ![mk.pos] = b], t, "bad payload",
                         mk.pos, mk.role) :
                mk \in {x \in CanonMarks(t) : x.what = "payload"},
                b \in NonPayloads } :
            t \in WireSeeds }

TrailingInputs ==
    { CanonInput(Canon(t) \o tr, t, "trailing", Len(Canon(t)), "none") :
        t \in WireSeeds, tr \in Trailers }

CanonInputs ==
    PlainInputs \cup TruncatedInputs \cup BadTagInputs
    \cup BadPayloadInputs \cup TrailingInputs

(* ----------------- the decoder as a state machine ---------------------- *)

\* arg holds the octets handed to mid_from_canon_bytes, aux how they were
\* made, out the outcome of the call.
InitCanon ==
    /\ call = "init"
    /\ \E x \in CanonInputs : arg = x.bytes /\ aux = x
    /\ out = NoOutcome

MidFromCanonBytes ==
    /\ call = "init"
    /\ call' = "mid_from_canon_bytes"
    /\ out' = mid_from_canon_bytes(arg)
    /\ UNCHANGED <<arg, aux>>

NextCanon == MidFromCanonBytes

SpecCanon == InitCanon /\ [][NextCanon]_vars

(* ------------- claims about mid_from_canon_bytes (SpecCanon) ----------- *)

\* The MAPs of a wire tree, the root included.
RECURSIVE WireMapsOf(_)
WireMapsOf(x) ==
    CASE x.w = "list" -> UNION {WireMapsOf(x.items[i]) : i \in 1..Len(x.items)}
      [] x.w = "map" ->
           {x} \cup UNION {WireMapsOf(x.entries[i][2]) : i \in 1..Len(x.entries)}
      [] OTHER -> {}

\* Every key after the first comes after its predecessor in the unsigned
\* octet order.
KeysStrictlyAscending(m) ==
    \A i \in 2..Len(m.entries) :
       UnsignedLess(m.entries[i - 1][1], m.entries[i][1])

KeysWellFormed(m) == \A i \in 1..Len(m.entries) : WellFormedKey(m.entries[i][1])

\* The first entry whose key is ill-formed or does not come after its
\* predecessor; 0 if there is none.
FirstDefect(entries) ==
    LET bad == { i \in 1..Len(entries) :
                   \/ ~WellFormedKey(entries[i][1])
                   \/ i > 1 /\ ~UnsignedLess(entries[i - 1][1], entries[i][1]) }
    IN IF bad = {} THEN 0 ELSE CHOOSE i \in bad : \A j \in bad : i <= j

\* What the key discipline prescribes for a MAP whose values are sound.
KeyDiscipline(entries, canon) ==
    LET i == FirstDefect(entries)
    IN CASE i = 0 -> Ok(Mid(canon))
         [] ~WellFormedKey(entries[i][1]) -> Err(ERR_UTF8)
         [] entries[i][1] = entries[i - 1][1] -> Err(ERR_DUP_KEY)
         [] OTHER -> Err(ERR_KEY_ORDER)

SameOutcome(o, e) == o.ok = e.ok /\ o.v = e.v

\* C9 (decoder structural rejection): with a valid header and within the size
\* limit, mid_from_canon_bytes raises ERR_CANON_MCF when the body is cut short
\* at any point, when a position where a tag is expected (root, list element,
\* map key, map value) holds an octet outside 01..06, when a BOOLEAN payload
\* is neither 00 nor 01, and when octets follow the root value.
C9_StructuralRejection ==
    (/\ call = "mid_from_canon_bytes"
     /\ aux.kind \in {"truncated", "bad tag", "bad payload", "trailing"})
    => Raises(out, ERR_CANON_MCF)

\* C9, the case that departs: an octet outside 01..06 where the tag of a map
\* key is expected makes the call raise ERR_SCHEMA.
C9_KeyTagRaisesSchema ==
    /\ call = "mid_from_canon_bytes"
    /\ aux.kind = "bad tag" /\ aux.role = "key"
    /\ arg = CANON_HDR \o <<4, 0, 0, 0, 1, 255, 0, 0, 0, 1, 97, 5, 1>>
    /\ Raises(out, ERR_SCHEMA)

\* C9 without the key position: every other structural defect raises
\* ERR_CANON_MCF, and a non-tag in a key position always raises ERR_SCHEMA.
C9_ExceptKeyTag ==
    (/\ call = "mid_from_canon_bytes"
     /\ aux.kind \in {"truncated", "bad tag", "bad payload", "trailing"})
    => IF aux.kind = "bad tag" /\ aux.role = "key"
       THEN Raises(out, ERR_SCHEMA)
       ELSE Raises(out, ERR_CANON_MCF)

\* C10 (decoder key discipline): a MID is returned only if the keys of every
\* MAP of the input are strictly ascending in the unsigned octet order and
\* well-formed UTF-8; in a MAP of sound values the first key that is
\* ill-formed raises ERR_UTF8, the first that equals its predecessor raises
\* ERR_DUP_KEY and the first that is smaller raises ERR_KEY_ORDER.
C10_KeyDiscipline ==
    (call = "mid_from_canon_bytes" /\ aux.kind = "plain")
    => /\ out.ok => \A m \in WireMapsOf(aux.tree) :
                       KeysStrictlyAscending(m) /\ KeysWellFormed(m)
       /\ aux.tree \in WireMaps
          => SameOutcome(out, KeyDiscipline(aux.tree.entries, arg))

\* C10: the keys "b" then "a" were decoded and ERR_KEY_ORDER raised.
C10_Witness ==
    /\ call = "mid_from_canon_bytes"
    /\ aux.kind = "plain"
    /\ arg = CANON_HDR \o <<4, 0, 0, 0, 2, 1, 0, 0, 0, 1, 98, 5, 1,
                            1, 0, 0, 0, 1, 97, 5, 1>>
    /\ Raises(out, ERR_KEY_ORDER)

(* ------------------------- json (the decoder) -------------------------- *)

\* The characters JSON syntax is made of, by code point.
Ch ==
    [quote |-> 34, plus |-> 43, comma |-> 44, minus |-> 45, dot |-> 46,
     slash |-> 47, zero |-> 48, nine |-> 57, colon |-> 58, upperE |-> 69,
     lbracket |-> 91, backslash |-> 92, rbracket |-> 93, b |-> 98, e |-> 101,
     f |-> 102, n |-> 110, r |-> 114, t |-> 116, u |-> 117, lbrace |-> 123,
     rbrace |-> 125]

\* " \t\n\r"
JsonWs == {32, 9, 10, 13}

Digits == 48..57

\* The words of the scanner: null, true, false, NaN, Infinity, -Infinity.
WordNull == <<110, 117, 108, 108>>
WordTrue == <<116, 114, 117, 101>>
WordFalse == <<102, 97, 108, 115, 101>>
WordNaN == <<78, 97, 78>>
WordInfinity == <<73, 110, 102, 105, 110, 105, 116, 121>>
WordNegInfinity == <<45, 73, 110, 102, 105, 110, 105, 116, 121>>

\* s[idx], 1-based; -1 past the end.
CharAt(s, idx) == IF idx <= Len(s) THEN s[idx] ELSE -1

\* The first index from idx on whose character is not in S, Len(s) + 1 if
\* there is none: where a loop `while idx <= end and s[idx] in S: idx++` ends.
FirstNotIn(s, idx, S) ==
    CHOOSE j \in idx..(Len(s) + 1) :
       /\ j = Len(s) + 1 \/ s[j] \notin S
       /\ \A k \in idx..(j - 1) : s[k] \in S

SkipWs(s, idx) == FirstNotIn(s, idx, JsonWs)

\* s[idx : idx + len(word)] == word
HasWord(s, idx, word) ==
    idx + Len(word) - 1 <= Len(s) /\ SubSeq(s, idx, idx + Len(word) - 1) = word

\* What the scanner hands back: the value, the index after it, and whether
\* pairs_hook has set dup_found while it was read.
Scanned(val, end, dup) == Ok([val |-> val, end |-> end, dup |-> dup])

\* StopIteration and JSONDecodeError leave json.loads as JSONDecodeError.
JSONDecodeError == Err("JSONDecodeError")

\* _FloatSentinel(token)
FloatSentinel(token) == [t |-> "_FloatSentinel", token |-> token]

\* mag * 10 + carry on a magnitude (base 256, big-endian).
RECURSIVE MulTenAdd(_, _)
MulTenAdd(mag, carry) ==
    IF mag = <<>> THEN (IF carry = 0 THEN <<>> ELSE <<carry>>)
    ELSE LET n == Len(mag)
             x == mag[n] * 10 + carry
         IN Append(MulTenAdd(SubSeq(mag, 1, n - 1), x \div 256), x % 256)

\* The magnitude of a run of decimal digits, digit by digit.
RECURSIVE DecimalMag(_, _, _)
DecimalMag(ds, i, mag) ==
    IF i > Len(ds) THEN mag
    ELSE DecimalMag(ds, i + 1, MulTenAdd(mag, ds[i] - Ch.zero))

\* The most decimal digits an int64 has; a token of more digits, which has
\* no leading zero, denotes a magnitude of at least 10^19 > 2^63.
INT64_DIGITS == 19

\* The limit on the digits of int(s) that CPython ships with
\* (sys.int_info.default_max_str_digits); 0 turns the limit off.
DEFAULT_MAX_STR_DIGITS == 4300

\* The range check of _intercept_int.
RangeChecked(val) ==
    IF IntLt(val, INT64_MIN) \/ IntLt(INT64_MAX, val) THEN Err(ERR_TYPE)
    ELSE Ok(val)

\* int(s) for a sign and a magnitude.
SignedInt(neg, mag) == VInt(neg /\ mag # <<>>, mag)

\* _intercept_int for the sign and the digits ds of a token
\* -?(0|[1-9][0-9]*).  int(s) raises ValueError when the interpreter limits
\* the digits of a conversion to max_str_digits and the token has more; a
\* token of more than INT64_DIGITS digits is out of range whatever its digits
\* are, and its value is not formed.
InterceptDigits(neg, ds, max_str_digits) ==
    CASE max_str_digits > 0 /\ Len(ds) > max_str_digits -> Err("ValueError")
      [] Len(ds) > INT64_DIGITS -> Err(ERR_TYPE)
      [] OTHER -> RangeChecked(SignedInt(neg, DecimalMag(ds, 1, <<>>)))

\* _intercept_int(s)
intercept_int(s, max_str_digits) ==
    IF s[1] = Ch.minus
    THEN InterceptDigits(TRUE, SubSeq(s, 2, Len(s)), max_str_digits)
    ELSE InterceptDigits(FALSE, s, max_str_digits)

\* The parts of _match_number.  The integer digits from s[first] on: a lone
\* 0, or all the digits there are.
IntEnd(s, first) ==
    IF s[first] = Ch.zero THEN first + 1 ELSE FirstNotIn(s, first + 1, Digits)

\* A fraction is read when a digit follows the '.'.
HasFrac(s, int_end) ==
    int_end < Len(s) /\ s[int_end] = Ch.dot /\ s[int_end + 1] \in Digits

FracEnd(s, int_end) ==
    IF HasFrac(s, int_end) THEN FirstNotIn(s, int_end + 2, Digits) ELSE int_end

\* Where the digits of the exponent at s[e_start] begin: after the 'e' and
\* a sign.
ExpFrom(s, e_start) ==
    IF e_start + 1 < Len(s) /\ s[e_start + 1] \in {Ch.plus, Ch.minus}
    THEN e_start + 2 ELSE e_start + 1

\* An exponent is read when a digit ends it; if none does the scanner goes
\* back to the 'e'.
HasExp(s, frac_end) ==
    /\ frac_end < Len(s)
    /\ s[frac_end] \in {Ch.e, Ch.upperE}
    /\ FirstNotIn(s, ExpFrom(s, frac_end), Digits) > ExpFrom(s, frac_end)

ExpEnd(s, frac_end) ==
    IF HasExp(s, frac_end) THEN FirstNotIn(s, ExpFrom(s, frac_end), Digits)
    ELSE frac_end

\* numstr = s[start:end] goes to parse_float (_intercept_float) if it has a
\* fraction or an exponent and to parse_int (_intercept_int) if it has not.
NumberToken(s, start, end, is_float, max_str_digits) ==
    IF is_float THEN Scanned(FloatSentinel(SubSeq(s, start, end - 1)), end, FALSE)
    ELSE Then(intercept_int(SubSeq(s, start, end - 1), max_str_digits),
              LAMBDA val : Scanned(val, end, FALSE))

NumberAfterFrac(s, start, has_frac, frac_end, max_str_digits) ==
    NumberToken(s, start, ExpEnd(s, frac_end),
                has_frac \/ HasExp(s, frac_end), max_str_digits)

NumberAfterInt(s, start, int_end, max_str_digits) ==
    NumberAfterFrac(s, start, HasFrac(s, int_end), FracEnd(s, int_end),
                    max_str_digits)

\* _match_number at start: the sign, the integer digits, the fraction, the
\* exponent.
MatchNumberFrom(s, start, first, max_str_digits) ==
    IF first > Len(s) \/ s[first] \notin Digits THEN JSONDecodeError
    ELSE NumberAfterInt(s, start, IntEnd(s, first), max_str_digits)

match_number(s, start, max_str_digits) ==
    MatchNumberFrom(s, start, IF s[start] = Ch.minus THEN start + 1 ELSE start,
                    max_str_digits)

HexDigits == (48..57) \cup (97..102) \cup (65..70)

HexVal(c) ==
    IF c \in 48..57 THEN c - 48 ELSE IF c \in 97..102 THEN c - 87 ELSE c - 55

\* The value of the four hex digits s[idx .. idx + 3]; -1 if they are not
\* there.
Hex4(s, idx) ==
    IF idx + 3 <= Len(s) /\ \A k \in idx..(idx + 3) : s[k] \in HexDigits
    THEN HexVal(s[idx]) * 4096 + HexVal(s[idx + 1]) * 256
         + HexVal(s[idx + 2]) * 16 + HexVal(s[idx + 3])
    ELSE -1

IsHighSurrogate(c) == 55296 <= c /\ c <= 56319
IsLowSurrogate(c) == 56320 <= c /\ c <= 57343

\* The escape \uXXXX whose backslash is s[idx]: the code point and the index
\* after it.  A high surrogate takes a following \uXXXX with it when that is
\* a low surrogate and a character follows the pair.
EscapeU(s, idx) ==
    LET c == Hex4(s, idx + 2)
        end == idx + 6
        c2 == Hex4(s, end + 2)
    IN CASE c = -1 -> JSONDecodeError
         [] ~(/\ IsHighSurrogate(c)
              /\ end + 6 <= Len(s)
              /\ s[end] = Ch.backslash
              /\ s[end + 1] = Ch.u) -> Ok([cp |-> c, end |-> end])
         [] c2 = -1 -> JSONDecodeError
         [] IsLowSurrogate(c2) ->
              Ok([cp |-> 65536 + (c - 55296) * 1024 + (c2 - 56320),
                  end |-> end + 6])
         [] OTHER -> Ok([cp |-> c, end |-> end])

\* BACKSLASH of the decoder: the character after the backslash and what it
\* stands for.
BACKSLASH ==
    (34 :> 34) @@ (92 :> 92) @@ (47 :> 47) @@ (98 :> 8) @@ (102 :> 12)
    @@ (110 :> 10) @@ (114 :> 13) @@ (116 :> 9)

\* scanstring(s, idx, strict=True), idx after the opening quote; chars are
\* the characters read so far.
RECURSIVE scanstring(_, _, _)

\* After the escape esc of EscapeU.
ScanAfterEscape(s, esc, chars) ==
    IF esc.ok THEN scanstring(s, esc.v.end, Append(chars, esc.v.cp)) ELSE esc

scanstring(s, idx, chars) ==
    CASE idx > Len(s) -> JSONDecodeError
      [] s[idx] = Ch.quote -> Scanned(VStr(chars), idx + 1, FALSE)
      [] s[idx] <= 31 -> JSONDecodeError
      [] s[idx] # Ch.backslash -> scanstring(s, idx + 1, Append(chars, s[idx]))
      [] CharAt(s, idx + 1) \in DOMAIN BACKSLASH ->
           scanstring(s, idx + 2, Append(chars, BACKSLASH[s[idx + 1]]))
      [] CharAt(s, idx + 1) = Ch.u -> ScanAfterEscape(s, EscapeU(s, idx), chars)
      [] OTHER -> JSONDecodeError

\* _ensure_no_surrogates(s)
ensure_no_surrogates(s) ==
    IF \E i \in 1..Len(s.cps) : IsSurrogate(s.cps[i]) THEN Err(ERR_UTF8)
    ELSE Ok(VNone)

\* The pairs whose key no earlier pair has, in their order.
KeepFirst(pairs) ==
    LET kept == { i \in 1..Len(pairs) :
                    \A j \in 1..(i - 1) : pairs[j][1] # pairs[i][1] }
    IN [k \in 1..Cardinality(kept) |->
          pairs[CHOOSE i \in kept : Cardinality({j \in kept : j <= i}) = k]]

\* pairs_hook(pairs): the dict of the first occurrences, and whether
\* dup_found was set; the first key that is no str or holds a surrogate
\* raises.
pairs_hook(pairs) ==
    LET bad == { i \in 1..Len(pairs) :
                   \/ ~isinstance(pairs[i][1], "str")
                   \/ ~ensure_no_surrogates(pairs[i][1]).ok }
        first == CHOOSE i \in bad : \A j \in bad : i <= j
    IN CASE bad = {} ->
              Ok([result |-> VDict(KeepFirst(pairs)),
                  dup_found |-> \E i, j \in 1..Len(pairs) :
                                   i < j /\ pairs[i][1] = pairs[j][1]])
         [] ~isinstance(pairs[first][1], "str") -> Err(ERR_SCHEMA)
         [] OTHER -> Err(ERR_UTF8)

\* The end of an object at s[idx] = '}': object_pairs_hook is called with the
\* pairs read.
CloseObject(pairs, idx, dup) ==
    Then(pairs_hook(pairs),
         LAMBDA h : Scanned(h.result, idx + 1, dup \/ h.dup_found))

\* scan_once(s, idx) of the scanner with the hooks of
\* json_strict_parse_with_dups: object_pairs_hook = pairs_hook, parse_float =
\* _intercept_float, parse_int = _intercept_int, and parse_constant raising
\* ERR_CANON_MCF.  The loops of the array and of the object recurse.
RECURSIVE scan_once(_, _, _)
RECURSIVE ArrayItems(_, _, _, _, _)
RECURSIVE ObjectItems(_, _, _, _, _, _)

\* One pass of the loop of the array, val the value just read: ']' ends the
\* array, ',' brings the next value.
ArrayItems(s, val, values, dup, max_str_digits) ==
    CASE ~val.ok -> val
      [] CharAt(s, SkipWs(s, val.v.end)) = Ch.rbracket ->
           Scanned(VList(Append(values, val.v.val)), SkipWs(s, val.v.end) + 1,
                   dup \/ val.v.dup)
      [] CharAt(s, SkipWs(s, val.v.end)) # Ch.comma -> JSONDecodeError
      [] OTHER ->
           ArrayItems(s, scan_once(s, SkipWs(s, SkipWs(s, val.v.end) + 1),
                                   max_str_digits),
                      Append(values, val.v.val), dup \/ val.v.dup,
                      max_str_digits)

\* After the key of an entry: ':' and the index of the value.
ObjectColon(s, key) ==
    CASE ~key.ok -> key
      [] CharAt(s, SkipWs(s, key.v.end)) # Ch.colon -> JSONDecodeError
      [] OTHER ->
           Ok([key |-> key.v.val, end |-> SkipWs(s, SkipWs(s, key.v.end) + 1)])

\* The key at s[idx] and the ':' after it.
ObjectKey(s, idx) ==
    IF CharAt(s, idx) # Ch.quote THEN JSONDecodeError
    ELSE ObjectColon(s, scanstring(s, idx + 1, <<>>))

\* One pass of the loop of the object, key and val the key and the value
\* just read (the value only after the key and its ':'): '}' ends the
\* object, ',' brings the next entry.
ObjectItems(s, key, val, pairs, dup, max_str_digits) ==
    CASE ~key.ok -> key
      [] ~val.ok -> val
      [] CharAt(s, SkipWs(s, val.v.end)) = Ch.rbrace ->
           CloseObject(Append(pairs, <<key.v.key, val.v.val>>),
                       SkipWs(s, val.v.end), dup \/ val.v.dup)
      [] CharAt(s, SkipWs(s, val.v.end)) # Ch.comma -> JSONDecodeError
      [] OTHER ->
           ObjectItems(s, ObjectKey(s, SkipWs(s, SkipWs(s, val.v.end) + 1)),
                       scan_once(s, ObjectKey(s, SkipWs(s, SkipWs(s, val.v.end)
                                                           + 1)).v.end,
                                 max_str_digits),
                       Append(pairs, <<key.v.key, val.v.val>>),
                       dup \/ val.v.dup, max_str_digits)

scan_once(s, idx, max_str_digits) ==
    CASE idx > Len(s) -> JSONDecodeError
      [] s[idx] = Ch.quote -> scanstring(s, idx + 1, <<>>)
      [] s[idx] = Ch.lbrace /\ CharAt(s, SkipWs(s, idx + 1)) = Ch.rbrace ->
           CloseObject(<<>>, SkipWs(s, idx + 1), FALSE)
      [] s[idx] = Ch.lbrace ->
           ObjectItems(s, ObjectKey(s, SkipWs(s, idx + 1)),
                       scan_once(s, ObjectKey(s, SkipWs(s, idx + 1)).v.end,
                                 max_str_digits),
                       <<>>, FALSE, max_str_digits)
      [] s[idx] = Ch.lbracket /\ CharAt(s, SkipWs(s, idx + 1)) = Ch.rbracket ->
           Scanned(VList(<<>>), SkipWs(s, idx + 1) + 1, FALSE)
      [] s[idx] = Ch.lbracket ->
           ArrayItems(s, scan_once(s, SkipWs(s, idx + 1), max_str_digits),
                      <<>>, FALSE, max_str_digits)
      [] HasWord(s, idx, WordNull) -> Scanned(VNone, idx + 4, FALSE)
      [] HasWord(s, idx, WordTrue) -> Scanned(VBool(TRUE), idx + 4, FALSE)
      [] HasWord(s, idx, WordFalse) -> Scanned(VBool(FALSE), idx + 5, FALSE)
      [] \/ HasWord(s, idx, WordNaN)
         \/ HasWord(s, idx, WordInfinity)
         \/ HasWord(s, idx, WordNegInfinity) -> Err(ERR_CANON_MCF)
      [] OTHER -> match_number(s, idx, max_str_digits)

\* sys.getrecursionlimit() of the interpreter as shipped.
RECURSION_LIMIT == 1000

\* The scanner enters one recursive call for each '[' it reads; this is the
\* number of arrays it has entered when it meets the first character that is
\* neither a '[' nor whitespace.
LeadingArrays(s) ==
    Cardinality({i \in 1..(FirstNotIn(s, 1, JsonWs \cup {Ch.lbracket}) - 1) :
                   s[i] = Ch.lbracket})

\* json.loads(s, ...): leading whitespace, one value, trailing whitespace,
\* and nothing more.  With more arrays entered than the interpreter allows
\* recursive calls, the scanner raises RecursionError; the texts scanned here
\* nest deeper than the limit only by their leading '['.
json_loads(s, max_str_digits) ==
    IF CharAt(s, 1) = 65279 THEN JSONDecodeError
    ELSE IF LeadingArrays(s) > RECURSION_LIMIT THEN Err("RecursionError")
    ELSE Then(scan_once(s, SkipWs(s, 1), max_str_digits), LAMBDA r :
              IF SkipWs(s, r.end) # Len(s) + 1 THEN JSONDecodeError
              ELSE Ok([obj |-> r.val, dup_found |-> r.dup]))

(* -------------------------- _json_adapter.py --------------------------- *)

\* b"\xef\xbb\xbf"
BOM == <<239, 187, 191>>

\* json_strict_parse_with_dups(raw): (obj, dup_found), or the first error.
\* max_str_digits is the interpreter's limit on the digits of int(s).
\* except UnicodeDecodeError: raise MapError(ERR_UTF8)
ExceptUnicodeDecodeError(text) == IF text.ok THEN text ELSE Err(ERR_UTF8)

\* except MapError: raise; except json.JSONDecodeError: raise
\* MapError(ERR_CANON_MCF).  Any other exception passes.
ExceptJSONDecodeError(r) ==
    IF ~r.ok /\ r.v = "JSONDecodeError" THEN Err(ERR_CANON_MCF) ELSE r

json_strict_parse_with_dups(raw, max_str_digits) ==
    CASE Len(raw) > MAX_CANON_BYTES -> Err(ERR_LIMIT_SIZE)
      [] HasWord(raw, SkipWs(raw, 1), BOM) -> Err(ERR_SCHEMA)
      [] OTHER ->
           Then(ExceptUnicodeDecodeError(bytes_decode_utf8(raw)), LAMBDA text :
                ExceptJSONDecodeError(json_loads(text, max_str_digits)))

\* child_depth = depth + 1 if isinstance(v, (dict, list)) else depth
ChildDepth(v, depth) ==
    IF isinstance(v, "dict") \/ isinstance(v, "list") THEN depth + 1 ELSE depth

\* json_to_canon_value(x, depth)
RECURSIVE json_to_canon_value(_, _)
RECURSIVE ConvertEntries(_, _, _, _)
RECURSIVE ConvertItems(_, _, _, _)

\* for k, v in x.items(): out[k] = json_to_canon_value(v, child_depth)
ConvertEntries(entries, i, depth, acc) ==
    LET k == entries[i][1]
        v == json_to_canon_value(entries[i][2], ChildDepth(entries[i][2], depth))
    IN CASE i > Len(entries) -> Ok(VDict(acc))
         [] ~isinstance(k, "str") -> Err(ERR_SCHEMA)
         [] ~ensure_no_surrogates(k).ok -> Err(ERR_UTF8)
         [] ~v.ok -> v
         [] OTHER -> ConvertEntries(entries, i + 1, depth, Append(acc, <<k, v.v>>))

\* for v in x: result.append(json_to_canon_value(v, child_depth))
ConvertItems(items, i, depth, result) ==
    LET v == json_to_canon_value(items[i], ChildDepth(items[i], depth))
    IN CASE i > Len(items) -> Ok(VList(result))
         [] ~v.ok -> v
         [] OTHER -> ConvertItems(items, i + 1, depth, Append(result, v.v))

json_to_canon_value(x, depth) ==
    CASE depth > MAX_DEPTH -> Err(ERR_LIMIT_DEPTH)
      [] isinstance(x, "dict") -> ConvertEntries(x.entries, 1, depth, <<>>)
      [] isinstance(x, "list") -> ConvertItems(x.items, 1, depth, <<>>)
      [] isinstance(x, "str") -> Then(ensure_no_surrogates(x), LAMBDA none : Ok(x))
      [] isinstance(x, "bool") -> Ok(x)
      [] isinstance(x, "int") -> Ok(x)
      [] x = VNone -> Err(ERR_TYPE)
      [] isinstance(x, "_FloatSentinel") -> Err(ERR_TYPE)
      [] isinstance(x, "float") -> Err(ERR_TYPE)
      [] OTHER -> Err(ERR_SCHEMA)

(* ------------------------ __init__.py (JSON) --------------------------- *)

\* mid_full_json(raw), under an interpreter whose limit on the digits of
\* int(s) is max_str_digits.
mid_full_json(raw, max_str_digits) ==
    Then(json_strict_parse_with_dups(raw, max_str_digits), LAMBDA parsed :
    Then(json_to_canon_value(parsed.obj, 1), LAMBDA val :
    Then(canon_bytes_from_value(val), LAMBDA canon :
         IF parsed.dup_found THEN Err(ERR_DUP_KEY) ELSE Ok(Mid(canon)))))

(* ----------------------- inputs of mid_full_json ----------------------- *)

\* JSON documents as trees.  A leaf is one token: its octets, the value RFC
\* 8259 gives it where JSON-STRICT admits it (VNone where it does not), and
\* what JSON-STRICT holds against it: "null", "float" (a '.', an 'e' or an
\* 'E' in a number), "range" (an integer outside int64), "constant" (NaN and
\* the infinities), "surrogate" (a string with an unpaired surrogate).
JLeaf(text, means, flaw) ==
    [j |-> "leaf", text |-> text, means |-> means, flaw |-> flaw]
JArray(items) == [j |-> "array", items |-> items]
JObject(entries) == [j |-> "object", entries |-> entries]

JStrings ==
    { \* "a"
      JLeaf(<<34, 97, 34>>, VStr(<<97>>), "none"),
      \* "1"
      JLeaf(<<34, 49, 34>>, VStr(<<49>>), "none"),
      \* "2"
      JLeaf(<<34, 50, 34>>, VStr(<<50>>), "none"),
      \* ""
      JLeaf(<<34, 34>>, VStr(<<>>), "none"),
      \* "b"
      JLeaf(<<34, 98, 34>>, VStr(<<98>>), "none"),
      \* "\u0061"
      JLeaf(<<34, 92, 117, 48, 48, 54, 49, 34>>, VStr(<<97>>), "none"),
      \* "e-acute", C3 A9
      JLeaf(<<34, 195, 169, 34>>, VStr(<<233>>), "none"),
      \* "\u00e9"
      JLeaf(<<34, 92, 117, 48, 48, 101, 57, 34>>, VStr(<<233>>), "none"),
      \* "\u00E9"
      JLeaf(<<34, 92, 117, 48, 48, 69, 57, 34>>, VStr(<<233>>), "none"),
      \* "\ud83d\ude00"
      JLeaf(<<34, 92, 117, 100, 56, 51, 100, 92, 117, 100, 101, 48, 48, 34>>,
            VStr(<<128512>>), "none"),
      \* U+1F600, F0 9F 98 80
      JLeaf(<<34, 240, 159, 152, 128, 34>>, VStr(<<128512>>), "none"),
      \* "\n"
      JLeaf(<<34, 92, 110, 34>>, VStr(<<10>>), "none"),
      \* "\/\\\""
      JLeaf(<<34, 92, 47, 92, 92, 92, 34, 34>>, VStr(<<47, 92, 34>>), "none") }

JSurrogates ==
    { \* "\ud800"
      JLeaf(<<34, 92, 117, 100, 56, 48, 48, 34>>, VNone, "surrogate"),
      \* "\udc00"
      JLeaf(<<34, 92, 117, 100, 99, 48, 48, 34>>, VNone, "surrogate"),
      \* "\ud83d\u0041"
      JLeaf(<<34, 92, 117, 100, 56, 51, 100, 92, 117, 48, 48, 52, 49, 34>>,
            VNone, "surrogate"),
      \* "a\udfffb"
      JLeaf(<<34, 97, 92, 117, 100, 102, 102, 102, 98, 34>>,
            VNone, "surrogate") }

JIntegers ==
    { \* 0
      JLeaf(<<48>>, VInt(FALSE, <<>>), "none"),
      \* -0
      JLeaf(<<45, 48>>, VInt(FALSE, <<>>), "none"),
      \* 1
      JLeaf(<<49>>, VInt(FALSE, <<1>>), "none"),
      \* -1
      JLeaf(<<45, 49>>, VInt(TRUE, <<1>>), "none"),
      \* 42
      JLeaf(<<52, 50>>, VInt(FALSE, <<42>>), "none"),
      \* 255
      JLeaf(<<50, 53, 53>>, VInt(FALSE, <<255>>), "none"),
      \* 256
      JLeaf(<<50, 53, 54>>, VInt(FALSE, <<1, 0>>), "none"),
      \* -256
      JLeaf(<<45, 50, 53, 54>>, VInt(TRUE, <<1, 0>>), "none"),
      \* 1234567890
      JLeaf(<<49, 50, 51, 52, 53, 54, 55, 56, 57, 48>>,
            VInt(FALSE, <<73, 150, 2, 210>>), "none"),
      \* 9223372036854775807
      JLeaf(<<57, 50, 50, 51, 51, 55, 50, 48, 51, 54, 56, 53, 52, 55, 55, 53, 56, 48, 55>>,
            VInt(FALSE, <<127, 255, 255, 255, 255, 255, 255, 255>>), "none"),
      \* -9223372036854775808
      JLeaf(<<45, 57, 50, 50, 51, 51, 55, 50, 48, 51, 54, 56, 53, 52, 55, 55, 53, 56, 48, 56>>,
            VInt(TRUE, <<128, 0, 0, 0, 0, 0, 0, 0>>), "none") }

JOutOfRange ==
    { \* 9223372036854775808
      JLeaf(<<57, 50, 50, 51, 51, 55, 50, 48, 51, 54, 56, 53, 52, 55, 55, 53, 56, 48, 56>>,
            VNone, "range"),
      \* -9223372036854775809
      JLeaf(<<45, 57, 50, 50, 51, 51, 55, 50, 48, 51, 54, 56, 53, 52, 55, 55, 53, 56, 48, 57>>,
            VNone, "range"),
      \* 10000000000000000000
      JLeaf(<<49, 48, 48, 48, 48, 48, 48, 48, 48, 48, 48, 48, 48, 48, 48, 48, 48, 48, 48, 48>>,
            VNone, "range"),
      \* 99999999999999999999
      JLeaf(<<57, 57, 57, 57, 57, 57, 57, 57, 57, 57, 57, 57, 57, 57, 57, 57, 57, 57, 57, 57>>,
            VNone, "range"),
      \* -12345678901234567890
      JLeaf(<<45, 49, 50, 51, 52, 53, 54, 55, 56, 57, 48, 49, 50, 51, 52, 53, 54, 55, 56, 57, 48>>,
            VNone, "range") }

JFloats ==
    { \* 1.0
      JLeaf(<<49, 46, 48>>, VNone, "float"),
      \* 1e5
      JLeaf(<<49, 101, 53>>, VNone, "float"),
      \* 1E5
      JLeaf(<<49, 69, 53>>, VNone, "float"),
      \* -0.0
      JLeaf(<<45, 48, 46, 48>>, VNone, "float"),
      \* 0.5
      JLeaf(<<48, 46, 53>>, VNone, "float"),
      \* 1.5e-3
      JLeaf(<<49, 46, 53, 101, 45, 51>>, VNone, "float"),
      \* 1e+5
      JLeaf(<<49, 101, 43, 53>>, VNone, "float"),
      \* 0e0
      JLeaf(<<48, 101, 48>>, VNone, "float"),
      \* 1e400
      JLeaf(<<49, 101, 52, 48, 48>>, VNone, "float") }

JWords ==
    { \* true
      JLeaf(<<116, 114, 117, 101>>, VBool(TRUE), "none"),
      \* false
      JLeaf(<<102, 97, 108, 115, 101>>, VBool(FALSE), "none"),
      \* null
      JLeaf(<<110, 117, 108, 108>>, VNone, "null") }

JConstants ==
    { \* NaN
      JLeaf(<<78, 97, 78>>, VNone, "constant"),
      \* Infinity
      JLeaf(<<73, 110, 102, 105, 110, 105, 116, 121>>, VNone, "constant"),
      \* -Infinity
      JLeaf(<<45, 73, 110, 102, 105, 110, 105, 116, 121>>, VNone, "constant") }

\* "a"
JsonA == JLeaf(<<34, 97, 34>>, VStr(<<97>>), "none")
\* "1"
JsonOne == JLeaf(<<34, 49, 34>>, VStr(<<49>>), "none")
\* "2"
JsonTwo == JLeaf(<<34, 50, 34>>, VStr(<<50>>), "none")
\* "b"
JsonB == JLeaf(<<34, 98, 34>>, VStr(<<98>>), "none")
\* "\u0061"
JsonEscapedA == JLeaf(<<34, 92, 117, 48, 48, 54, 49, 34>>, VStr(<<97>>), "none")
\* "\ud800"
JsonSurrogate == JLeaf(<<34, 92, 117, 100, 56, 48, 48, 34>>, VNone, "surrogate")
\* 1
JsonInt == JLeaf(<<49>>, VInt(FALSE, <<1>>), "none")
\* 9223372036854775808
JsonBig == JLeaf(<<57, 50, 50, 51, 51, 55, 50, 48, 51, 54, 56, 53, 52, 55, 55, 53, 56, 48, 56>>, VNone, "range")
\* 1.0
JsonFloat == JLeaf(<<49, 46, 48>>, VNone, "float")
\* true
JsonTrue == JLeaf(<<116, 114, 117, 101>>, VBool(TRUE), "none")
\* null
JsonNull == JLeaf(<<110, 117, 108, 108>>, VNone, "null")
\* NaN
JsonNaN == JLeaf(<<78, 97, 78>>, VNone, "constant")

\* An integer token of n digits: 1 and n - 1 zeros, with or without a sign.
JHuge(n, sign) ==
    JLeaf(sign \o [i \in 1..n |-> IF i = 1 THEN 49 ELSE 48], VNone, "range")

JHuges ==
    { JHuge(n, sign) :
        n \in {DEFAULT_MAX_STR_DIGITS, DEFAULT_MAX_STR_DIGITS + 1},
        sign \in {<<>>, <<45>>} }

JLeaves ==
    JStrings \cup JSurrogates \cup JIntegers \cup JOutOfRange \cup JFloats
    \cup JWords \cup JConstants \cup JHuges

\* The octets of a document, sep between any two tokens.
RECURSIVE JsonText(_, _)
RECURSIVE JsonItems(_, _, _)
RECURSIVE JsonEntries(_, _, _)

JsonItems(items, i, sep) ==
    IF i > Len(items) THEN <<>>
    ELSE (IF i > 1 THEN <<44>> \o sep ELSE <<>>)
         \o JsonText(items[i], sep) \o sep \o JsonItems(items, i + 1, sep)

JsonEntries(entries, i, sep) ==
    IF i > Len(entries) THEN <<>>
    ELSE (IF i > 1 THEN <<44>> \o sep ELSE <<>>)
         \o entries[i][1].text \o sep \o <<58>> \o sep
         \o JsonText(entries[i][2], sep) \o sep
         \o JsonEntries(entries, i + 1, sep)

JsonText(x, sep) ==
    CASE x.j = "leaf" -> x.text
      [] x.j = "array" -> <<91>> \o sep \o JsonItems(x.items, 1, sep) \o <<93>>
      [] x.j = "object" ->
           <<123>> \o sep \o JsonEntries(x.entries, 1, sep) \o <<125>>

\* How a document is written out: what stands before it, between its tokens
\* and after it, and what JSON-STRICT holds against that.
JStyle(name, lead, sep, trail, flaw) ==
    [name |-> name, lead |-> lead, sep |-> sep, trail |-> trail, flaw |-> flaw]

Compact == JStyle("compact", <<>>, <<>>, <<>>, "none")

Styles ==
    { Compact,
      JStyle("spaced", <<32, 9>>, <<10, 32>>, <<13, 10>>, "none"),
      JStyle("bom", <<239, 187, 191>>, <<>>, <<>>, "bom"),
      JStyle("bom after space", <<32, 239, 187, 191>>, <<>>, <<>>, "bom"),
      JStyle("trailing x", <<>>, <<>>, <<120>>, "malformed"),
      JStyle("trailing FF", <<>>, <<>>, <<255>>, "utf8") }

\* An input of mid_full_json: the document doc inside nest arrays, written in
\* a style.
JsonInput(doc, nest, style) == [doc |-> doc, nest |-> nest, style |-> style]

JsonBytes(x) ==
    x.style.lead \o [i \in 1..x.nest |-> 91] \o JsonText(x.doc, x.style.sep)
    \o [i \in 1..x.nest |-> 93] \o x.style.trail

\* Arrays of at most MaxEntries of these values.
ArrayValues ==
    {JsonA, JsonInt, JsonTrue, JsonNull, JsonFloat, JsonBig, JsonNaN,
     JsonSurrogate}

JArrays == {JArray(items) : items \in SeqsUpTo(ArrayValues, MaxEntries)}

\* Objects of at most MaxEntries of these entries, keys repeated or not.
ObjectEntries ==
    {JsonA, JsonB, JsonSurrogate} \X {JsonOne, JsonNull, JsonFloat, JsonSurrogate}

JObjects == {JObject(entries) : entries \in SeqsUpTo(ObjectEntries, MaxEntries)}

\* Objects that repeat a key: literally, and through an escape.
JDups ==
    { JObject(<< <<JsonA, JsonOne>>, <<JsonA, JsonTwo>> >>),
      JObject(<< <<JsonA, JsonOne>>, <<JsonEscapedA, JsonTwo>> >>) }

\* A repeated key with something after it: a further entry, a following
\* element, an enclosing object, or a container as the repeated key's value.
JAfterDup ==
    UNION { { JObject(d.entries \o <<e>>) : e \in ObjectEntries }
            \cup { JArray(<<d, v>>) : v \in ArrayValues }
            \cup { JArray(<<v, d>>) : v \in ArrayValues }
            \cup { JObject(<< <<JsonB, d>>, <<JsonA, v>> >>) : v \in ArrayValues }
            \cup { JObject(<< <<JsonA, JsonOne>>, <<JsonA, JArray(<<v>>)>> >>) :
                     v \in ArrayValues }
            \cup { JObject(<< <<JsonA, JsonOne>>,
                              <<JsonA, JObject(<< <<JsonB, v>> >>)>> >>) :
                     v \in ArrayValues } :
            d \in JDups }

\* What is put inside DeepNests arrays.
JDeepest ==
    { JsonInt, JsonNull, JArray(<<>>), JObject(<<>>),
      JObject(<< <<JsonA, JsonNull>> >>) } \cup JDups

JsonInputs ==
    { JsonInput(doc, 0, Compact) :
        doc \in JLeaves \cup JArrays \cup JObjects \cup JDups \cup JAfterDup }
    \cup { JsonInput(doc, 0, style) :
             doc \in JLeaves \cup JDups, style \in Styles }
    \cup { JsonInput(doc, nest, Compact) : doc \in JDeepest, nest \in DeepNests }

(* -------------------- mid_full_json as a state machine ----------------- *)

\* The limits on the digits of int(s) an interpreter may run with: none, or
\* the one CPython ships with.
MaxStrDigits == {0, DEFAULT_MAX_STR_DIGITS}

\* arg holds the octets handed to mid_full_json, aux how they were made and
\* the limit of the interpreter, out the outcome of the call.
InitJson ==
    /\ call = "init"
    /\ \E x \in JsonInputs, limit \in MaxStrDigits :
          /\ arg = JsonBytes(x)
          /\ aux = [input |-> x, max_str_digits |-> limit]
    /\ out = NoOutcome

MidFullJson ==
    /\ call = "init"
    /\ call' = "mid_full_json"
    /\ out' = mid_full_json(arg, aux.max_str_digits)
    /\ UNCHANGED <<arg, aux>>

NextJson == MidFullJson

SpecJson == InitJson /\ [][NextJson]_vars

(* ---------------- claims about mid_full_json (SpecJson) ---------------- *)

\* The value a document denotes: object to dict, array to list, and the
\* leaves as their table says.
RECURSIVE Denoted(_)
Denoted(x) ==
    CASE x.j = "leaf" -> x.means
      [] x.j = "array" -> VList([i \in 1..Len(x.items) |-> Denoted(x.items[i])])
      [] x.j = "object" ->
           VDict([i \in 1..Len(x.entries) |->
                    <<x.entries[i][1].means, Denoted(x.entries[i][2])>>])

InputValue(x) == NestList(x.nest, Denoted(x.doc))

\* The tag the type mapping gives the root of an input.
MappedTag(x) ==
    CASE x.nest > 0 \/ x.doc.j = "array" -> TAG_LIST
      [] x.doc.j = "object" -> TAG_MAP
      [] x.doc.means.t = "str" -> TAG_STRING
      [] x.doc.means.t = "bool" -> TAG_BOOLEAN
      [] x.doc.means.t = "int" -> TAG_INTEGER

\* The number of containers around the innermost value.
RECURSIVE JHeight(_)
JHeight(x) ==
    CASE x.j = "leaf" -> 0
      [] x.j = "array" ->
           1 + MaxOf({JHeight(x.items[i]) : i \in 1..Len(x.items)})
      [] x.j = "object" ->
           1 + MaxOf({JHeight(x.entries[i][2]) : i \in 1..Len(x.entries)})

InputHeight(x) == x.nest + JHeight(x.doc)

\* Two keys are the same string after the escapes are resolved.
SameKey(k1, k2) ==
    k1.flaw = k2.flaw /\ (IF k1.flaw = "none" THEN k1.means = k2.means
                          ELSE k1.text = k2.text)

\* What JSON-STRICT holds against a document, in the order of the text: the
\* flaw of each leaf, "surrogate" for a key with an unpaired surrogate, and
\* "dup" for a key that an earlier entry of the same object has.  With
\* dropped = TRUE the values of the repeated keys are left out.
RECURSIVE Events(_, _)
RECURSIVE ItemEvents(_, _, _)
RECURSIVE EntryEvents(_, _, _)

ItemEvents(items, i, dropped) ==
    IF i > Len(items) THEN <<>>
    ELSE Events(items[i], dropped) \o ItemEvents(items, i + 1, dropped)

EntryEvents(entries, i, dropped) ==
    IF i > Len(entries) THEN <<>>
    ELSE LET key == entries[i][1]
             repeated == \E j \in 1..(i - 1) : SameKey(entries[j][1], key)
         IN (IF key.flaw = "none" THEN <<>> ELSE <<key.flaw>>)
            \o (IF repeated THEN <<"dup">> ELSE <<>>)
            \o (IF repeated /\ dropped THEN <<>>
                ELSE Events(entries[i][2], dropped))
            \o EntryEvents(entries, i + 1, dropped)

Events(x, dropped) ==
    CASE x.j = "leaf" -> IF x.flaw = "none" THEN <<>> ELSE <<x.flaw>>
      [] x.j = "array" -> ItemEvents(x.items, 1, dropped)
      [] x.j = "object" -> EntryEvents(x.entries, 1, dropped)

SeqRange(s) == {s[i] : i \in 1..Len(s)}

\* Everything JSON-STRICT holds against an input: the events of the
\* document, the flaw of the style, and "depth" beyond MAX_DEPTH containers.
Flaws(x) ==
    SeqRange(Events(x.doc, FALSE))
    \cup (IF x.style.flaw = "none" THEN {} ELSE {x.style.flaw})
    \cup (IF InputHeight(x) > MAX_DEPTH THEN {"depth"} ELSE {})

\* The leaves of a document.
RECURSIVE LeavesOf(_)
LeavesOf(x) ==
    CASE x.j = "leaf" -> {x}
      [] x.j = "array" -> UNION {LeavesOf(x.items[i]) : i \in 1..Len(x.items)}
      [] x.j = "object" ->
           UNION {LeavesOf(x.entries[i][2]) : i \in 1..Len(x.entries)}

\* Some integer token has more digits than the interpreter converts.
OverDigitLimit(x, limit) ==
    /\ limit > 0
    /\ \E l \in LeavesOf(x.doc) :
          /\ l.flaw = "range"
          /\ Cardinality({i \in 1..Len(l.text) : l.text[i] \in Digits}) > limit

\* The type mapping of C6 for the input x and the outcome o.
TypeMapping(x, o) ==
    /\ Flaws(x) = {}
       => /\ o.ok
          /\ SameOutcome(o, mid_full(InputValue(x)))
          /\ o.v[2].sha256[Len(CANON_HDR) + 1] = MappedTag(x)
    /\ (Flaws(x) # {} /\ Flaws(x) \subseteq {"float", "null", "range"})
       => Raises(o, ERR_TYPE)
    /\ Flaws(x) = {"constant"} => Raises(o, ERR_CANON_MCF)

\* C6 (JSON type mapping): for input without violations mid_full_json returns
\* the MID that mid_full returns for the mapped value (object to MAP, array
\* to LIST, string to STRING, true/false to BOOLEAN, an integer token within
\* int64 to INTEGER); in an otherwise clean document a number token with a
\* '.', an 'e' or an 'E', a null, or an integer token outside int64 raises
\* ERR_TYPE, and NaN, Infinity, -Infinity raise ERR_CANON_MCF.
C6_JsonTypeMapping ==
    call = "mid_full_json" => TypeMapping(aux.input, out)

\* C6, the case that departs: under the shipped limit of 4300 digits the
\* integer token of 4301 digits makes the call raise ValueError.
C6_HugeTokenRaisesValueError ==
    /\ call = "mid_full_json"
    /\ aux.max_str_digits = DEFAULT_MAX_STR_DIGITS
    /\ aux.input = JsonInput(JHuge(DEFAULT_MAX_STR_DIGITS + 1, <<>>), 0, Compact)
    /\ Raises(out, "ValueError")

\* C6 with the tokens the interpreter converts: the type mapping holds for
\* every input none of whose integer tokens exceeds the limit on digits.
C6_WithinDigitLimit ==
    (call = "mid_full_json" /\ ~OverDigitLimit(aux.input, aux.max_str_digits))
    => TypeMapping(aux.input, out)

\* The precedence of C7 for the input x and the outcome o.
DupKeyPrecedence(x, o) ==
    "dup" \in Flaws(x)
    => /\ ~o.ok
       /\ o.v \in {ERR_DUP_KEY, ERR_CANON_MCF, ERR_SCHEMA, ERR_TYPE, ERR_UTF8}
       /\ Flaws(x) \subseteq {"dup", "depth"} => o.v = ERR_DUP_KEY

\* C7 (duplicate keys under precedence): for input in which an object has
\* the same key twice after the escapes are resolved, mid_full_json returns no
\* MID; it raises ERR_DUP_KEY unless an error of higher precedence
\* (ERR_CANON_MCF, ERR_SCHEMA, ERR_TYPE, ERR_UTF8) applies, and an error of
\* lower precedence (ERR_LIMIT_DEPTH) never takes the place of ERR_DUP_KEY.
C7_DupKeyPrecedence ==
    (call = "mid_full_json" /\ ~OverDigitLimit(aux.input, aux.max_str_digits))
    => DupKeyPrecedence(aux.input, out)

\* C7, the case that departs: the object {"a":"1","a":"2"} inside 32 arrays
\* makes the call raise ERR_LIMIT_DEPTH.
C7_DeepDupRaisesLimitDepth ==
    /\ call = "mid_full_json"
    /\ aux.input = JsonInput(JObject(<< <<JsonA, JsonOne>>, <<JsonA, JsonTwo>> >>),
                             MAX_DEPTH, Compact)
    /\ Raises(out, ERR_LIMIT_DEPTH)

\* C7 within the depth limit: the precedence holds for every input of at
\* most MAX_DEPTH containers.
C7_WithinDepth ==
    (/\ call = "mid_full_json"
     /\ ~OverDigitLimit(aux.input, aux.max_str_digits)
     /\ InputHeight(aux.input) <= MAX_DEPTH)
    => DupKeyPrecedence(aux.input, out)

\* The deferral of C8 for the events ev of a well-formed document and the
\* outcome o: after is what follows the first repeated key.
Deferral(ev, o) ==
    LET first == CHOOSE i \in 1..Len(ev) :
                    ev[i] = "dup" /\ \A j \in 1..(i - 1) : ev[j] # "dup"
        after == {ev[j] : j \in (first + 1)..Len(ev)}
        all == SeqRange(ev) \ {"dup"}
    IN "dup" \in SeqRange(ev)
       => /\ (after \cap {"null", "float"} # {} /\ all \subseteq {"null", "float"})
             => Raises(o, ERR_TYPE)
          /\ ("surrogate" \in after /\ all \subseteq {"surrogate"})
             => Raises(o, ERR_UTF8)
          /\ Raises(o, ERR_DUP_KEY)
             => all \cap {"null", "float", "surrogate"} = {}

\* Well-formed JSON within the limits of depth and of digits.
WellFormedJson(x, limit) ==
    /\ x.style.flaw = "none"
    /\ InputHeight(x) <= MAX_DEPTH
    /\ ~OverDigitLimit(x, limit)

\* C8 (duplicate-key deferral): for well-formed JSON with a repeated key and,
\* anywhere after it (the value of the repeated key included), a null or a
\* float token, mid_full_json raises ERR_TYPE; with a string with an unpaired
\* surrogate after it, ERR_UTF8; ERR_DUP_KEY is raised only when the input
\* has no such violation.
C8_DupKeyDeferral ==
    (call = "mid_full_json" /\ WellFormedJson(aux.input, aux.max_str_digits))
    => Deferral(Events(aux.input.doc, FALSE), out)

\* C8, the case that departs: {"a":"1","a":null} makes the call raise
\* ERR_DUP_KEY.
C8_DroppedNullRaisesDupKey ==
    /\ call = "mid_full_json"
    /\ aux.input = JsonInput(JObject(<< <<JsonA, JsonOne>>, <<JsonA, JsonNull>> >>),
                             0, Compact)
    /\ Raises(out, ERR_DUP_KEY)

\* C8 without the values of the repeated keys, which pairs_hook drops: the
\* deferral holds for what is left of the document.
C8_WithoutDroppedValues ==
    (call = "mid_full_json" /\ WellFormedJson(aux.input, aux.max_str_digits))
    => Deferral(Events(aux.input.doc, TRUE), out)

(* ------------- one tree on the three paths (SpecDepth) ----------------- *)

\* The numbers of wrapping containers: none, one, and around the limit.
DepthNests == {0, 1, MAX_DEPTH - 2, MAX_DEPTH - 1, MAX_DEPTH, MAX_DEPTH + 1}

\* What is wrapped: true, "1", an integer, [], {}, {"a": "1"}, [true].
DepthLeaves ==
    { JsonTrue, JsonOne, JsonInt, JArray(<<>>), JObject(<<>>),
      JObject(<< <<JsonA, JsonOne>> >>), JArray(<<JsonTrue>>) }

\* A tree: the leaf inside nest containers, all lists or all dicts with the
\* one key "a".
DepthTree(nest, wrap, leaf) == [nest |-> nest, wrap |-> wrap, leaf |-> leaf]

\* v wrapped in k dicts: {"a": {"a": ... v}}.
RECURSIVE NestDict(_, _)
NestDict(k, v) ==
    IF k = 0 THEN v ELSE VDict(<< <<VStr(<<97>>), NestDict(k - 1, v)>> >>)

\* n times the sequence s.
Repeat(n, s) == [i \in 1..(n * Len(s)) |-> s[((i - 1) % Len(s)) + 1]]

\* The tree as a host value, as CANON_BYTES and as JSON text.
TreeValue(t) ==
    IF t.wrap = "list" THEN NestList(t.nest, Denoted(t.leaf))
    ELSE NestDict(t.nest, Denoted(t.leaf))

TreeCanon(t) ==
    CANON_HDR
    \o (IF t.wrap = "list" THEN Repeat(t.nest, <<TAG_LIST, 0, 0, 0, 1>>)
        ELSE Repeat(t.nest, <<TAG_MAP, 0, 0, 0, 1, TAG_STRING, 0, 0, 0, 1, 97>>))
    \o RefMCF(Denoted(t.leaf))

TreeJson(t) ==
    (IF t.wrap = "list" THEN Repeat(t.nest, <<Ch.lbracket>>)
     ELSE Repeat(t.nest, <<Ch.lbrace, Ch.quote, 97, Ch.quote, Ch.colon>>))
    \o JsonText(t.leaf, <<>>)
    \o (IF t.wrap = "list" THEN Repeat(t.nest, <<Ch.rbracket>>)
        ELSE Repeat(t.nest, <<Ch.rbrace>>))

\* The containers on the longest path of the tree, the root counted as 1.
TreeHeight(t) == t.nest + JHeight(t.leaf)

DepthTrees ==
    {DepthTree(k, w, l) : k \in DepthNests, w \in {"list", "dict"}, l \in DepthLeaves}

\* The trees handed to the two paths that read octets: each tree, and one
\* more array than the interpreter allows recursive calls.
OctetTrees == DepthTrees \cup {DepthTree(RECURSION_LIMIT + 1, "list", JsonTrue)}

\* The trees handed to mid_full_json: the deep trees are the nested arrays.
JsonTrees == {t \in OctetTrees : t.wrap = "dict" => t.nest <= 1}

\* An input of one of the three paths, and the tree it was written from.
DepthInput(path, tree, input) ==
    /\ arg = input
    /\ aux = [path |-> path, tree |-> tree]

InitDepth ==
    /\ call = "init"
    /\ \/ \E t \in DepthTrees : DepthInput("canonical_bytes_full", t, TreeValue(t))
       \/ \E t \in OctetTrees : DepthInput("mid_from_canon_bytes", t, TreeCanon(t))
       \/ \E t \in JsonTrees : DepthInput("mid_full_json", t, TreeJson(t))
    /\ out = NoOutcome

DepthCanonicalBytesFull ==
    /\ call = "init"
    /\ aux.path = "canonical_bytes_full"
    /\ call' = "canonical_bytes_full"
    /\ out' = canonical_bytes_full(arg)
    /\ UNCHANGED <<arg, aux>>

DepthMidFromCanonBytes ==
    /\ call = "init"
    /\ aux.path = "mid_from_canon_bytes"
    /\ call' = "mid_from_canon_bytes"
    /\ out' = mid_from_canon_bytes(arg)
    /\ UNCHANGED <<arg, aux>>

DepthMidFullJson ==
    /\ call = "init"
    /\ aux.path = "mid_full_json"
    /\ call' = "mid_full_json"
    /\ out' = mid_full_json(arg, DEFAULT_MAX_STR_DIGITS)
    /\ UNCHANGED <<arg, aux>>

NextDepth == DepthCanonicalBytesFull \/ DepthMidFromCanonBytes \/ DepthMidFullJson

SpecDepth == InitDepth /\ [][NextDepth]_vars

\* The cutoff of C11 for the tree t and the outcome o of one of the paths.
DepthCutoff(t, o) ==
    /\ TreeHeight(t) <= MAX_DEPTH => o.ok
    /\ TreeHeight(t) > MAX_DEPTH => Raises(o, ERR_LIMIT_DEPTH)

\* C11 (one depth cutoff on all three paths): a tree whose containers nest at
\* most 32 deep, the root container counted as 1 and scalars not counted, is
\* accepted by canonical_bytes_full, by mid_from_canon_bytes and by
\* mid_full_json, and a tree that nests 33 deep or more is rejected with
\* ERR_LIMIT_DEPTH by each of the three, so that they agree on every tree.
C11_OneDepthCutoff ==
    call # "init" => DepthCutoff(aux.tree, out)

\* C11, the case that departs: 1001 arrays around true make mid_full_json
\* raise RecursionError.
C11_DeepJsonRaisesRecursionError ==
    /\ call = "mid_full_json"
    /\ aux.tree = DepthTree(RECURSION_LIMIT + 1, "list", JsonTrue)
    /\ Raises(out, "RecursionError")

\* C11 within the recursion limit of the interpreter: the cutoff holds on
\* the three paths for every tree of at most RECURSION_LIMIT containers, and
\* on the two paths that do not scan JSON for every tree.
C11_WithinRecursionLimit ==
    (call # "init" /\ (call = "mid_full_json" => TreeHeight(aux.tree) <= RECURSION_LIMIT))
    => DepthCutoff(aux.tree, out)

(* ------------- claims about unsupported host values (Spec) ------------- *)

\* What the canonical model holds against a host value, at any position:
\* "none" for None, "unsupported" for a host type outside the six variants
\* and for a key that is not a string, "range" for an integer outside int64,
\* "surrogate" for a string or key with a surrogate code point.
RECURSIVE Irregular(_)
Irregular(v) ==
    CASE v.t = "bool" -> {}
      [] v.t = "int" -> IF InInt64(v) THEN {} ELSE {"range"}
      [] v.t = "str" ->
           IF \E i \in 1..Len(v.cps) : IsSurrogate(v.cps[i]) THEN {"surrogate"}
           ELSE {}
      [] v.t = "bytes" -> {}
      [] v.t = "list" -> UNION {Irregular(v.items[i]) : i \in 1..Len(v.items)}
      [] v.t = "dict" ->
           UNION {(IF v.entries[i][1].t = "str" THEN Irregular(v.entries[i][1])
                   ELSE {"unsupported"})
                  \cup Irregular(v.entries[i][2]) : i \in 1..Len(v.entries)}
      [] v.t = "none" -> {"none"}
      [] OTHER -> {"unsupported"}

\* The rejections of C14 for the value v within the depth limit and the
\* outcome o.
UnsupportedRejected(v, o) ==
    /\ Irregular(v) = {"none"} => Raises(o, ERR_TYPE)
    /\ Irregular(v) = {"unsupported"} => Raises(o, ERR_SCHEMA)
    /\ Irregular(v) \cap {"none", "unsupported"} # {} => ~o.ok

\* C14 (unsupported host values in the encoder): mid_full and
\* canonical_bytes_full reject a value that holds a None at any position with
\* ERR_TYPE, and a value that holds a host type outside the six variants (a
\* tuple, a float) or a MAP key that is not a string with ERR_SCHEMA; no such
\* value yields CANON_BYTES.
C14_UnsupportedHostValues ==
    (call \in {"canonical_bytes_full", "mid_full"} /\ Height(arg) <= MAX_DEPTH)
    => UnsupportedRejected(arg, out)

\* C14, the case that departs: canonical_bytes_full({"a": None}) raises
\* ERR_SCHEMA.
C14_NoneRaisesSchema ==
    /\ call = "canonical_bytes_full"
    /\ arg = VDict(<< <<VStr(<<97>>), VNone>> >>)
    /\ Raises(out, ERR_SCHEMA)

\* C14 as the encoder has it: None, as every host type outside the six
\* variants and every key that is not a string, is rejected with ERR_SCHEMA.
C14_AllRaiseSchema ==
    (/\ call \in {"canonical_bytes_full", "mid_full"}
     /\ Height(arg) <= MAX_DEPTH
     /\ Irregular(arg) # {}
     /\ Irregular(arg) \subseteq {"none", "unsupported"})
    => Raises(out, ERR_SCHEMA)

(* --------------------------- _projection.py ---------------------------- *)

\* A pointer is a str, kept as its sequence of code points; '/' and '~'.
SLASH == 47
TILDE == 126

\* ptr.split("/")[1:] for a ptr that starts with "/": the runs between the
\* slashes, cur the run being read.
RECURSIVE SplitSlash(_, _, _, _)
SplitSlash(ptr, i, cur, acc) ==
    CASE i > Len(ptr) -> Append(acc, cur)
      [] ptr[i] = SLASH -> SplitSlash(ptr, i + 1, <<>>, Append(acc, cur))
      [] OTHER -> SplitSlash(ptr, i + 1, Append(cur, ptr[i]), acc)

\* The decoding with ~0 taken first and ~1 after it: "~01" comes out as '/'.
RECURSIVE DecodeToken_tilde_first(_, _, _)
DecodeToken_tilde_first(raw, i, decoded) ==
    CASE i > Len(raw) -> Ok(decoded)
      [] raw[i] # TILDE -> DecodeToken_tilde_first(raw, i + 1, Append(decoded, raw[i]))
      [] i + 1 > Len(raw) -> Err(ERR_SCHEMA)
      [] raw[i + 1] = 48 /\ i + 2 <= Len(raw) /\ raw[i + 2] = 49 ->
           DecodeToken_tilde_first(raw, i + 3, Append(decoded, SLASH))
      [] raw[i + 1] = 48 -> DecodeToken_tilde_first(raw, i + 2, Append(decoded, TILDE))
      [] raw[i + 1] = 49 -> DecodeToken_tilde_first(raw, i + 2, Append(decoded, SLASH))
      [] OTHER -> Err(ERR_SCHEMA)

\* The while loop of _parse_pointer over one raw token: ~0 is '~', ~1 is
\* '/', any other character after '~' and a '~' at the end are errors.
RECURSIVE DecodeToken(_, _, _)
DecodeToken(raw, i, decoded) ==
    CASE i > Len(raw) -> Ok(decoded)
      [] raw[i] # TILDE -> DecodeToken(raw, i + 1, Append(decoded, raw[i]))
      [] i + 1 > Len(raw) -> Err(ERR_SCHEMA)
      [] raw[i + 1] = 48 -> DecodeToken(raw, i + 2, Append(decoded, TILDE))
      [] raw[i + 1] = 49 -> DecodeToken(raw, i + 2, Append(decoded, SLASH))
      [] OTHER -> Err(ERR_SCHEMA)

\* for raw in ptr.split("/")[1:]: ... tokens.append(decoded)
RECURSIVE DecodeTokens(_, _, _)
DecodeTokens(raws, k, tokens) ==
    IF k > Len(raws) THEN Ok(tokens)
    ELSE Then(DecodeToken(raws[k], 1, <<>>), LAMBDA decoded :
              DecodeTokens(raws, k + 1, Append(tokens, decoded)))

parse_pointer(ptr) ==
    CASE ptr = <<>> -> Ok(<<>>)
      [] ptr[1] # SLASH -> Err(ERR_SCHEMA)
      [] OTHER -> DecodeTokens(SplitSlash(ptr, 2, <<>>, <<>>), 1, <<>>)

\* tok in cur, cur[tok] and cur.get(tok) of a dict cur; a token is a str.
KeyIndex(cur, tok) ==
    {i \in 1..Len(cur.entries) :
        cur.entries[i][1].t = "str" /\ cur.entries[i][1].cps = tok}

HasKey(cur, tok) == KeyIndex(cur, tok) # {}

GetItem(cur, tok) == cur.entries[CHOOSE i \in KeyIndex(cur, tok) : TRUE][2]

\* target[tok] = value: in place when the key is there, at the end when not.
SetItem(target, tok, value) ==
    IF HasKey(target, tok)
    THEN VDict([i \in 1..Len(target.entries) |->
                  IF i \in KeyIndex(target, tok) THEN <<VStr(tok), value>>
                  ELSE target.entries[i]])
    ELSE VDict(Append(target.entries, <<VStr(tok), value>>))

\* for ptr in pointers: parsed.append((ptr, _parse_pointer(ptr)))
RECURSIVE ParseAll(_, _, _)
ParseAll(pointers, k, parsed) ==
    IF k > Len(pointers) THEN Ok(parsed)
    ELSE Then(parse_pointer(pointers[k]), LAMBDA tokens :
              ParseAll(pointers, k + 1, Append(parsed, <<pointers[k], tokens>>)))

\* The walk with a step from a LIST taken for a pointer that does not match.
RECURSIVE MatchWalk_list_unmatched(_, _, _)
MatchWalk_list_unmatched(cur, tokens, i) ==
    CASE i > Len(tokens) -> Ok(TRUE)
      [] ~isinstance(cur, "dict") -> Ok(FALSE)
      [] ~HasKey(cur, tokens[i]) -> Ok(FALSE)
      [] OTHER -> MatchWalk_list_unmatched(GetItem(cur, tokens[i]), tokens, i + 1)

\* The walk of one pointer in the match loop: ok, or the LIST traversal
\* error.
RECURSIVE MatchWalk(_, _, _)
MatchWalk(cur, tokens, i) ==
    CASE i > Len(tokens) -> Ok(TRUE)
      [] isinstance(cur, "list") -> Err(ERR_SCHEMA)
      [] ~isinstance(cur, "dict") -> Ok(FALSE)
      [] ~HasKey(cur, tokens[i]) -> Ok(FALSE)
      [] OTHER -> MatchWalk(GetItem(cur, tokens[i]), tokens, i + 1)

\* The match loop: matched_paths, any_match, any_unmatched.
Matching(matched_paths, any_match, any_unmatched) ==
    [matched_paths |-> matched_paths, any_match |-> any_match,
     any_unmatched |-> any_unmatched]

\* The match loop counting a pointer as unmatched only when one has matched
\* before it.
RECURSIVE MatchLoop_unmatched_after_match(_, _, _, _)
MatchLoop_unmatched_after_match(descriptor, parsed, k, m) ==
    CASE k > Len(parsed) -> Ok(m)
      [] parsed[k][1] = <<>> ->
           MatchLoop_unmatched_after_match(descriptor, parsed, k + 1,
                     Matching(m.matched_paths, TRUE, m.any_unmatched))
      [] OTHER ->
           Then(MatchWalk(descriptor, parsed[k][2], 1), LAMBDA ok :
                MatchLoop_unmatched_after_match(descriptor, parsed, k + 1,
                          IF ok THEN Matching(Append(m.matched_paths, parsed[k][2]),
                                              TRUE, m.any_unmatched)
                          ELSE Matching(m.matched_paths, m.any_match,
                                        m.any_unmatched \/ m.any_match)))

RECURSIVE MatchLoop(_, _, _, _)
MatchLoop(descriptor, parsed, k, m) ==
    CASE k > Len(parsed) -> Ok(m)
      [] parsed[k][1] = <<>> ->
           MatchLoop(descriptor, parsed, k + 1,
                     Matching(m.matched_paths, TRUE, m.any_unmatched))
      [] OTHER ->
           Then(MatchWalk(descriptor, parsed[k][2], 1), LAMBDA ok :
                MatchLoop(descriptor, parsed, k + 1,
                          IF ok THEN Matching(Append(m.matched_paths, parsed[k][2]),
                                              TRUE, m.any_unmatched)
                          ELSE Matching(m.matched_paths, m.any_match, TRUE)))

\* is_subsumed with the prefix test turned round: toks is a strict prefix of
\* another matched path.
is_subsumed_by_longer(toks, matched_paths) ==
    \E k \in 1..Len(matched_paths) :
       /\ Len(toks) < Len(matched_paths[k])
       /\ SubSeq(matched_paths[k], 1, Len(toks)) = toks

\* is_subsumed(toks): another matched path is a strict prefix of toks.
is_subsumed(toks, matched_paths) ==
    \E k \in 1..Len(matched_paths) :
       /\ Len(matched_paths[k]) < Len(toks)
       /\ SubSeq(toks, 1, Len(matched_paths[k])) = matched_paths[k]

\* effective = [t for t in matched_paths if not is_subsumed(t)]
RECURSIVE Effective(_, _, _)
Effective(matched_paths, k, acc) ==
    CASE k > Len(matched_paths) -> acc
      [] is_subsumed(matched_paths[k], matched_paths) ->
           Effective(matched_paths, k + 1, acc)
      [] OTHER -> Effective(matched_paths, k + 1, Append(acc, matched_paths[k]))

\* The walk of one effective pointer in the build loop: the leaf value at
\* the tip (cur[tok] raises KeyError for a key that is not there).
RECURSIVE LeafWalk(_, _, _)
LeafWalk(cur, toks, i) ==
    CASE i > Len(toks) -> Ok(cur)
      [] isinstance(cur, "list") -> Err(ERR_SCHEMA)
      [] ~isinstance(cur, "dict") -> Err(ERR_SCHEMA)
      [] ~HasKey(cur, toks[i]) -> Err("KeyError")
      [] OTHER -> LeafWalk(GetItem(cur, toks[i]), toks, i + 1)

\* The step down that never looks at what the projection holds: nxt = {}.
NextTarget_always_fresh(target, tok) == VDict(<<>>)

\* nxt = target.get(tok); if nxt is None: nxt = {}
NextTarget(target, tok) ==
    IF HasKey(target, tok) /\ GetItem(target, tok).t # "none"
    THEN GetItem(target, tok)
    ELSE VDict(<<>>)

\* The walk of the projected tree without the step down (target = nxt):
\* every key of the path is set at the root of the projection.
RECURSIVE InsertPath_target_kept(_, _, _, _)
InsertPath_target_kept(target, toks, i, leaf) ==
    CASE i = Len(toks) -> Ok(SetItem(target, toks[i], leaf))
      [] ~isinstance(NextTarget(target, toks[i]), "dict") -> Err(ERR_SCHEMA)
      [] OTHER ->
           InsertPath_target_kept(SetItem(target, toks[i], NextTarget(target, toks[i])),
                                  toks, i + 1, leaf)

\* The walk of the projected tree for one path: nested MAPs created as
\* needed, the leaf value set at the tip.
RECURSIVE InsertPath(_, _, _, _)
InsertPath(target, toks, i, leaf) ==
    CASE i = Len(toks) -> Ok(SetItem(target, toks[i], leaf))
      [] ~isinstance(NextTarget(target, toks[i]), "dict") -> Err(ERR_SCHEMA)
      [] OTHER ->
           Then(InsertPath(NextTarget(target, toks[i]), toks, i + 1, leaf),
                LAMBDA nxt : Ok(SetItem(target, toks[i], nxt)))

\* for toks in effective: ...
RECURSIVE BuildLoop(_, _, _, _)
BuildLoop(descriptor, effective, k, projected) ==
    IF k > Len(effective) THEN Ok(projected)
    ELSE Then(LeafWalk(descriptor, effective[k], 1), LAMBDA cur :
         Then(InsertPath(projected, effective[k], 1, cur), LAMBDA p :
              BuildLoop(descriptor, effective, k + 1, p)))

\* bind_project without the return for the empty pointer: "" goes through
\* the build like any other effective path.
Project_no_empty_return(descriptor, parsed, m) ==
    CASE ~m.any_match -> Ok(VDict(<<>>))
      [] m.any_unmatched -> Err(ERR_SCHEMA)
      [] OTHER ->
           BuildLoop(descriptor, Effective(m.matched_paths, 1, <<>>), 1,
                     VDict(<<>>))

\* bind_project failing closed before it looks for a match.
Project_unmatched_first(descriptor, parsed, m) ==
    CASE m.any_unmatched -> Err(ERR_SCHEMA)
      [] ~m.any_match -> Ok(VDict(<<>>))
      [] \E k \in 1..Len(parsed) : parsed[k][1] = <<>> -> Ok(descriptor)
      [] OTHER ->
           BuildLoop(descriptor, Effective(m.matched_paths, 1, <<>>), 1,
                     VDict(<<>>))

\* bind_project building into the descriptor's entries instead of an empty
\* MAP: the siblings of the selected fields stay.
Project_siblings_kept(descriptor, parsed, m) ==
    CASE ~m.any_match -> Ok(VDict(<<>>))
      [] m.any_unmatched -> Err(ERR_SCHEMA)
      [] \E k \in 1..Len(parsed) : parsed[k][1] = <<>> -> Ok(descriptor)
      [] OTHER ->
           BuildLoop(descriptor, Effective(m.matched_paths, 1, <<>>), 1,
                     descriptor)

\* bind_project after the match loop: rules (c), (3), (e), (d) and the
\* build.
Project(descriptor, parsed, m) ==
    CASE ~m.any_match -> Ok(VDict(<<>>))
      [] m.any_unmatched -> Err(ERR_SCHEMA)
      [] \E k \in 1..Len(parsed) : parsed[k][1] = <<>> -> Ok(descriptor)
      [] OTHER ->
           BuildLoop(descriptor, Effective(m.matched_paths, 1, <<>>), 1,
                     VDict(<<>>))

bind_project(descriptor, pointers) ==
    CASE ~isinstance(descriptor, "dict") -> Err(ERR_SCHEMA)
      [] Cardinality({pointers[k] : k \in 1..Len(pointers)}) # Len(pointers) ->
           Err(ERR_SCHEMA)
      [] OTHER ->
           Then(ParseAll(pointers, 1, <<>>), LAMBDA parsed :
           Then(MatchLoop(descriptor, parsed, 1, Matching(<<>>, FALSE, FALSE)),
                LAMBDA m : Project(descriptor, parsed, m)))

(* ------------------------ __init__.py (BIND) --------------------------- *)

mid_bind(descriptor, pointers) ==
    Then(bind_project(descriptor, pointers), LAMBDA val : mid_from_value(val))

canonical_bytes_bind(descriptor, pointers) ==
    Then(bind_project(descriptor, pointers), LAMBDA val :
         canon_bytes_from_value(val))

mid_bind_json(raw, pointers, max_str_digits) ==
    Then(json_strict_parse_with_dups(raw, max_str_digits), LAMBDA parsed :
    Then(json_to_canon_value(parsed.obj, 1), LAMBDA val :
    Then(bind_project(val, pointers), LAMBDA proj :
    Then(canon_bytes_from_value(proj), LAMBDA canon :
         IF parsed.dup_found THEN Err(ERR_DUP_KEY) ELSE Ok(Mid(canon))))))

(* --------------------- inputs of the BIND functions -------------------- *)

\* Pointers per generated pointer list.
MaxPointers == 2

\* A pointer string and what RFC 6901 makes of it: its reference tokens, or
\* that it does not parse.
BPtr(text, tokens, parses) == [text |-> text, tokens |-> tokens, parses |-> parses]

\* "", "/a", "/a/b", "/a/l", "/a/l/0", "/b", "/b/a", "/zz", "/~0", "/~01",
\* and three that do not parse: "a", "/~2", "/a/~".
BindPointers ==
    { BPtr(<<>>, <<>>, TRUE),
      BPtr(<<47, 97>>, << <<97>> >>, TRUE),
      BPtr(<<47, 97, 47, 98>>, << <<97>>, <<98>> >>, TRUE),
      BPtr(<<47, 97, 47, 108>>, << <<97>>, <<108>> >>, TRUE),
      BPtr(<<47, 97, 47, 108, 47, 48>>, << <<97>>, <<108>>, <<48>> >>, TRUE),
      BPtr(<<47, 98>>, << <<98>> >>, TRUE),
      BPtr(<<47, 98, 47, 97>>, << <<98>>, <<97>> >>, TRUE),
      BPtr(<<47, 122, 122>>, << <<122, 122>> >>, TRUE),
      BPtr(<<47, 126, 48>>, << <<126>> >>, TRUE),
      BPtr(<<47, 126, 48, 49>>, << <<126, 49>> >>, TRUE),
      BPtr(<<97>>, <<>>, FALSE),
      BPtr(<<47, 126, 50>>, <<>>, FALSE),
      BPtr(<<47, 97, 47, 126>>, <<>>, FALSE) }

\* The pointer lists: at most MaxPointers pointer strings, repetitions
\* included.
PointerLists == SeqsUpTo({p.text : p \in BindPointers}, MaxPointers)

\* {"a": {"b": 1, "l": [True, {"b": 1}]}, "b": "x", "~": True},
\* {"~1": {"a": 1}, "a": "x", "b": [True]}, {}, and with a lone surrogate
\* {"a": {"b": "\ud800"}, "b": 1} and {"a": {"\udfff": 1}, "b": 1}.
MapDescriptors ==
    { VDict(<< <<VStr(<<97>>),
                 VDict(<< <<VStr(<<98>>), VInt(FALSE, <<1>>)>>,
                          <<VStr(<<108>>),
                            VList(<< VBool(TRUE),
                                     VDict(<< <<VStr(<<98>>), VInt(FALSE, <<1>>)>> >>) >>)>> >>)>>,
               <<VStr(<<98>>), VStr(<<120>>)>>,
               <<VStr(<<126>>), VBool(TRUE)>> >>),
      VDict(<< <<VStr(<<126, 49>>), VDict(<< <<VStr(<<97>>), VInt(FALSE, <<1>>)>> >>)>>,
               <<VStr(<<97>>), VStr(<<120>>)>>,
               <<VStr(<<98>>), VList(<<VBool(TRUE)>>)>> >>),
      VDict(<<>>),
      VDict(<< <<VStr(<<97>>), VDict(<< <<VStr(<<98>>), VStr(<<55296>>)>> >>)>>,
               <<VStr(<<98>>), VInt(FALSE, <<1>>)>> >>),
      VDict(<< <<VStr(<<97>>), VDict(<< <<VStr(<<57343>>), VInt(FALSE, <<1>>)>> >>)>>,
               <<VStr(<<98>>), VInt(FALSE, <<1>>)>> >>) }

\* Roots that are no MAP: [True], "x".
OtherRoots == {VList(<<VBool(TRUE)>>), VStr(<<120>>)}

Descriptors == MapDescriptors \cup OtherRoots

\* JSON documents: {"a":{"b":1},"b":[true]}, {"a":"1","a":"2"}, {}, [true],
\* and [null], which json_to_canon_value rejects.
BindDocs ==
    { JObject(<< <<JsonA, JObject(<< <<JsonB, JsonInt>> >>)>>,
                 <<JsonB, JArray(<<JsonTrue>>)>> >>),
      JObject(<< <<JsonA, JsonOne>>, <<JsonA, JsonTwo>> >>),
      JObject(<<>>),
      JArray(<<JsonTrue>>),
      JArray(<<JsonNull>>) }

(* ------------------ the BIND functions as a state machine -------------- *)

InitBind ==
    /\ call = "init"
    /\ arg = <<>>
    /\ aux = <<>>
    /\ out = NoOutcome

CanonicalBytesBind ==
    /\ call = "init"
    /\ \E v \in Descriptors, P \in PointerLists :
          /\ arg' = [descriptor |-> v, pointers |-> P]
          /\ out' = canonical_bytes_bind(v, P)
    /\ call' = "canonical_bytes_bind"
    /\ UNCHANGED aux

MidBind ==
    /\ call = "init"
    /\ \E v \in Descriptors, P \in PointerLists :
          /\ arg' = [descriptor |-> v, pointers |-> P]
          /\ out' = mid_bind(v, P)
    /\ call' = "mid_bind"
    /\ UNCHANGED aux

\* aux keeps the document the octets were written from.
MidBindJson ==
    /\ call = "init"
    /\ \E doc \in BindDocs, P \in PointerLists :
          /\ arg' = [raw |-> JsonText(doc, <<>>), pointers |-> P]
          /\ aux' = doc
          /\ out' = mid_bind_json(JsonText(doc, <<>>), P, DEFAULT_MAX_STR_DIGITS)
    /\ call' = "mid_bind_json"

\* The projection is projected again with the same pointers; aux keeps the
\* CANON_BYTES of the first projection.
BindAgain ==
    /\ call = "canonical_bytes_bind"
    /\ out.ok
    /\ call' = "bind_again"
    /\ aux' = out.v
    /\ out' = Then(bind_project(arg.descriptor, arg.pointers), LAMBDA proj1 :
              Then(bind_project(proj1, arg.pointers), LAMBDA proj2 :
                   canon_bytes_from_value(proj2)))
    /\ UNCHANGED arg

NextBind == CanonicalBytesBind \/ MidBind \/ MidBindJson \/ BindAgain

SpecBind == InitBind /\ [][NextBind]_vars

(* ------------------ claims about BIND (SpecBind) ----------------------- *)

\* The pointer of the table with this text.
PtrOf(text) == CHOOSE p \in BindPointers : p.text = text

\* What section 4.6 makes of a token list in v from token i on: "match",
\* "miss" (a key that is not there, or a step from a scalar), or "list" (a
\* step from a LIST into a child token).
RECURSIVE Resolve(_, _, _)
Resolve(v, toks, i) ==
    CASE i > Len(toks) -> "match"
      [] v.t = "list" -> "list"
      [] v.t = "dict" /\ (\E e \in 1..Len(v.entries) : v.entries[e][1] = VStr(toks[i])) ->
           Resolve(v.entries[CHOOSE e \in 1..Len(v.entries) :
                                v.entries[e][1] = VStr(toks[i])][2], toks, i + 1)
      [] OTHER -> "miss"

\* The value at the tip of a token list that matches in v.
RECURSIVE ValueAt(_, _, _)
ValueAt(v, toks, i) ==
    IF i > Len(toks) THEN v
    ELSE ValueAt(v.entries[CHOOSE e \in 1..Len(v.entries) :
                              v.entries[e][1] = VStr(toks[i])][2], toks, i + 1)

\* The minimal enclosing MAP structure of one leaf: {tok1: {tok2: ... leaf}}.
RECURSIVE Enclose(_, _, _)
Enclose(toks, i, leaf) ==
    IF i > Len(toks) THEN leaf
    ELSE VDict(<< <<VStr(toks[i]), Enclose(toks, i + 1, leaf)>> >>)

\* The descriptor and the pointer list of the call made, and how each
\* pointer of the list fares in the descriptor.
TheDescriptor == IF call = "mid_bind_json" THEN Denoted(aux) ELSE arg.descriptor

Parseable(P) == \A k \in 1..Len(P) : PtrOf(P[k]).parses

Distinct(P) == \A j, k \in 1..Len(P) : j # k => P[j] # P[k]

Fares(v, P) == {Resolve(v, PtrOf(P[k]).tokens, 1) : k \in 1..Len(P)}

BindCalls == {"canonical_bytes_bind", "mid_bind", "mid_bind_json"}

\* bind_project was called: the value functions call it first, mid_bind_json
\* calls it with the value json_to_canon_value returned for the document.
Projecting ==
    /\ call \in BindCalls
    /\ call = "mid_bind_json"
       => /\ SeqRange(Events(aux, FALSE)) \subseteq {"dup"}
          /\ JHeight(aux) <= MAX_DEPTH

\* The call made returned what the FULL call of the same kind returns for e.
SameAsFull(e) ==
    CASE call = "canonical_bytes_bind" -> SameOutcome(out, canonical_bytes_full(e))
      [] OTHER -> SameOutcome(out, mid_full(e))

\* C15 (BIND rejections): bind_project, and so canonical_bytes_bind, mid_bind
\* and mid_bind_json, raises ERR_SCHEMA when the root is not a MAP, when the
\* pointer list holds the same pointer string twice, when a pointer does not
\* parse, and when resolving a pointer steps from a LIST into a child token,
\* also when other pointers match or the empty pointer is present; a pointer
\* that ends at a LIST selects the whole LIST as a leaf and is accepted.
C15_BindRejections ==
    Projecting =>
      LET v == TheDescriptor
          P == arg.pointers
      IN /\ v.t # "dict" => Raises(out, ERR_SCHEMA)
         /\ ~Distinct(P) => Raises(out, ERR_SCHEMA)
         /\ ~Parseable(P) => Raises(out, ERR_SCHEMA)
         /\ (v.t = "dict" /\ Parseable(P) /\ "list" \in Fares(v, P))
            => Raises(out, ERR_SCHEMA)
         /\ (/\ call # "mid_bind_json"
             /\ v.t = "dict"
             /\ Len(P) = 1
             /\ Parseable(P)
             /\ P[1] # <<>>
             /\ Fares(v, P) = {"match"}
             /\ ValueAt(v, PtrOf(P[1]).tokens, 1).t = "list")
            => /\ out.ok
               /\ SameAsFull(Enclose(PtrOf(P[1]).tokens, 1,
                                     ValueAt(v, PtrOf(P[1]).tokens, 1)))

\* C15, its case: "/a/l/0" steps into the LIST at "/a/l" while "/a" matches.
C15_Witness ==
    /\ call = "canonical_bytes_bind"
    /\ arg.pointers = << <<47, 97>>, <<47, 97, 47, 108, 47, 48>> >>
    /\ Resolve(arg.descriptor, << <<97>>, <<108>>, <<48>> >>, 1) = "list"
    /\ Raises(out, ERR_SCHEMA)

\* The pointers are parseable and pairwise distinct and the root is a MAP.
WellPosed(v, P) == v.t = "dict" /\ Parseable(P) /\ Distinct(P)

\* The document of the mid_bind_json call has no duplicate key.
NoDupKey == call = "mid_bind_json" => Events(aux, FALSE) = <<>>

\* C16 (BIND match rule): for a MAP descriptor and parseable, pairwise
\* distinct pointers, if no pointer matches (the empty pointer list, a path
\* through a scalar, a key that is not there) the result is the empty MAP and
\* not an error, so that mid_bind equals mid_full({}); if at least one pointer
\* matches and at least one does not, the call fails with ERR_SCHEMA.
C16_MatchRule ==
    (Projecting /\ WellPosed(TheDescriptor, arg.pointers))
    => /\ (Fares(TheDescriptor, arg.pointers) \subseteq {"miss"} /\ NoDupKey)
          => out.ok /\ SameAsFull(VDict(<<>>))
       /\ {"match", "miss"} \subseteq Fares(TheDescriptor, arg.pointers)
          => Raises(out, ERR_SCHEMA)

\* C16, its case: "/zz" names a key that is not there and "/b/a" runs through
\* the scalar at "/b"; mid_bind returns the MID of the empty MAP.
C16_Witness ==
    /\ call = "mid_bind"
    /\ arg.pointers = << <<47, 122, 122>>, <<47, 98, 47, 97>> >>
    /\ Resolve(arg.descriptor, << <<98>> >>, 1) = "match"
    /\ Resolve(arg.descriptor, << <<98>>, <<97>> >>, 1) = "miss"
    /\ Returns(out, Mid(CANON_HDR \o <<TAG_MAP, 0, 0, 0, 0>>))

\* The value functions of BIND, and a pointer list that holds "".
ValueBindCalls == {"canonical_bytes_bind", "mid_bind"}

HasEmptyPointer(P) == \E k \in 1..Len(P) : P[k] = <<>>

\* C17 as stated (empty pointer): for a MAP descriptor v and parseable,
\* pairwise distinct pointers P that contain "", canonical_bytes_bind(v, P)
\* equals canonical_bytes_full(v) and mid_bind(v, P) equals mid_full(v),
\* whatever the other pointers of P are.
C17_EmptyPointerWhatever ==
    (/\ call \in ValueBindCalls
     /\ WellPosed(arg.descriptor, arg.pointers)
     /\ HasEmptyPointer(arg.pointers))
    => SameAsFull(arg.descriptor)

\* C17 as amended: the same, provided every other pointer of P matches in v
\* (rule (c) is evaluated before rule (e): beside a pointer that does not
\* match, or that steps from a LIST, "" does not save the call).
C17_EmptyPointerAllMatch ==
    (/\ call \in ValueBindCalls
     /\ WellPosed(arg.descriptor, arg.pointers)
     /\ HasEmptyPointer(arg.pointers)
     /\ Fares(arg.descriptor, arg.pointers) = {"match"})
    => SameAsFull(arg.descriptor)

\* C17, its case: "" beside "/a/b", which matches; the call returns the
\* CANON_BYTES of the whole descriptor, which has more than the key "a".
C17_Witness ==
    /\ call = "canonical_bytes_bind"
    /\ arg.pointers = << <<47, 97, 47, 98>>, <<>> >>
    /\ Resolve(arg.descriptor, << <<97>>, <<98>> >>, 1) = "match"
    /\ Len(arg.descriptor.entries) > 1
    /\ out.ok
    /\ SameAsFull(arg.descriptor)

\* The pointers of the table whose token list strictly extends that of the
\* pointer with this text.
Children(parent) ==
    {p \in BindPointers :
       /\ p.parses
       /\ Len(PtrOf(parent).tokens) < Len(p.tokens)
       /\ SubSeq(p.tokens, 1, Len(PtrOf(parent).tokens)) = PtrOf(parent).tokens}

\* The value call made, made with another pointer list.
BindWith(P) ==
    IF call = "canonical_bytes_bind"
    THEN canonical_bytes_bind(arg.descriptor, P)
    ELSE mid_bind(arg.descriptor, P)

\* The call made is bind(v, [parent]) for a MAP v.
BindOfOne ==
    /\ call \in ValueBindCalls
    /\ arg.descriptor.t = "dict"
    /\ Len(arg.pointers) = 1
    /\ Parseable(arg.pointers)

\* C18 as stated (subsumption): for every MAP descriptor v and pointers
\* parent, child such that the token list of parent is a strict prefix of that
\* of child, bind(v, [parent]) and bind(v, [parent, child]) have the same
\* outcome.
C18_SubsumptionAlways ==
    BindOfOne =>
      \A child \in Children(arg.pointers[1]) :
         SameOutcome(out, BindWith(<<arg.pointers[1], child.text>>))

\* C18 as amended: the same, provided child matches in v whenever parent does
\* (a child that does not match beside a parent that does fails the call with
\* ERR_SCHEMA: rule (c) is evaluated before rule (d)).
C18_SubsumptionOfMatched ==
    BindOfOne =>
      \A child \in Children(arg.pointers[1]) :
         (Resolve(arg.descriptor, PtrOf(arg.pointers[1]).tokens, 1) = "match"
          => Resolve(arg.descriptor, child.tokens, 1) = "match")
         => SameOutcome(out, BindWith(<<arg.pointers[1], child.text>>))

\* C18, its case: bind(v, ["/a"]) where "/a/b" matches too and "/a" has more
\* below it than "b"; the call with both pointers returns the same bytes.
C18_Witness ==
    /\ call = "canonical_bytes_bind"
    /\ arg.pointers = << <<47, 97>> >>
    /\ arg.descriptor.t = "dict"
    /\ Resolve(arg.descriptor, << <<97>>, <<98>> >>, 1) = "match"
    /\ Len(ValueAt(arg.descriptor, << <<97>> >>, 1).entries) > 1
    /\ out.ok
    /\ SameOutcome(out, canonical_bytes_bind(arg.descriptor,
                                             << <<47, 97>>, <<47, 97, 47, 98>> >>))

\* The permutations of a pointer list.
Permuted(P) ==
    {[k \in 1..Len(P) |-> P[f[k]]] :
       f \in {g \in [1..Len(P) -> 1..Len(P)] :
                \A i, j \in 1..Len(P) : i # j => g[i] # g[j]}}

\* C19 (pointer-order invariance): for every descriptor v, every pointer list
\* P and every permutation P' of P, bind(v, P) and bind(v, P') have the same
\* outcome: the same CANON_BYTES (the same MID) when they succeed, and
\* otherwise both fail with the same error code.
C19_OrderInvariance ==
    call \in ValueBindCalls =>
      \A Q \in Permuted(arg.pointers) : SameOutcome(out, BindWith(Q))

\* C19, its case: two pointers that match, "/b" in front of "/a/b"; the call
\* with "/a/b" in front returns the same bytes.
C19_Witness ==
    /\ call = "canonical_bytes_bind"
    /\ arg.descriptor.t = "dict"
    /\ arg.pointers = << <<47, 98>>, <<47, 97, 47, 98>> >>
    /\ Fares(arg.descriptor, arg.pointers) = {"match"}
    /\ out.ok
    /\ SameOutcome(out, canonical_bytes_bind(arg.descriptor,
                                             << <<47, 97, 47, 98>>, <<47, 98>> >>))

\* The projection bind_project returns for the call made.
Projection == bind_project(arg.descriptor, arg.pointers)

\* C20 (projection idempotence): for a MAP v and a pointer set P all of whose
\* pointers match in v, bind(v, P) succeeds, and bind(bind(v, P), P) succeeds
\* too, with every pointer matched in the projection, and produces the same
\* CANON_BYTES as bind(v, P), also when P holds pointers subsumed by others.
C20_Idempotence ==
    /\ (/\ call = "canonical_bytes_bind"
        /\ WellPosed(arg.descriptor, arg.pointers)
        /\ Fares(arg.descriptor, arg.pointers) \subseteq {"match"}
        /\ Irregular(arg.descriptor) = {})
       => out.ok
    /\ (/\ call = "bind_again"
        /\ WellPosed(arg.descriptor, arg.pointers)
        /\ Fares(arg.descriptor, arg.pointers) \subseteq {"match"})
       => /\ Projection.ok
          /\ Fares(Projection.v, arg.pointers) \subseteq {"match"}
          /\ out.ok
          /\ out.v = aux

\* C20, its case: "/a/b" is subsumed by "/a" and "/b" stands beside them; the
\* projection leaves out a key of v and projecting it again returns the same
\* bytes.
C20_Witness ==
    /\ call = "bind_again"
    /\ arg.descriptor.t = "dict"
    /\ Len(arg.descriptor.entries) > 2
    /\ arg.pointers \in Permuted(<< <<47, 97>>, <<47, 97, 47, 98>> >>)
    /\ Fares(arg.descriptor, arg.pointers) = {"match"}
    /\ Len(Projection.v.entries) = 1
    /\ out.ok
    /\ out.v = aux

(* ------------- claims about surrogates on the value API (Spec) --------- *)

\* The value call made has a value within the depth limit whose only flaw is
\* a surrogate code point in a STRING or in a MAP key.
SurrogateCall ==
    /\ call \in {"canonical_bytes_full", "mid_full"}
    /\ Height(arg) <= MAX_DEPTH
    /\ Irregular(arg) = {"surrogate"}

\* C13 (surrogates on the value API): when a STRING value or a MAP key passed
\* to mid_full or canonical_bytes_full holds a code point in U+D800..U+DFFF,
\* the call is rejected with the MapError ERR_UTF8; no other kind of failure
\* surfaces and no CANON_BYTES are produced.
C13_SurrogateRaisesUtf8 == SurrogateCall => Raises(out, ERR_UTF8)

\* C13, the case that departs: canonical_bytes_full({"\ud800": 1}) raises
\* UnicodeEncodeError, which is no MapError.
C13_SurrogateRaisesUnicodeEncodeError ==
    /\ call = "canonical_bytes_full"
    /\ arg = VDict(<< <<VStr(<<55296>>), VInt(FALSE, <<1>>)>> >>)
    /\ ~out.ok
    /\ out.v = "UnicodeEncodeError"

\* C13 as the encoder has it: no CANON_BYTES are produced, and the failure
\* that surfaces is the UnicodeEncodeError of str.encode.
C13_SurrogateNoCanonBytes ==
    SurrogateCall => ~out.ok /\ out.v = "UnicodeEncodeError"

(* --------------------- the size limits (SpecLimit) --------------------- *)

\* An input of the size limits: a leaf that is a BYTES value of n zero bytes,
\* a LIST of n times true or a MAP of n entries with value true, inside one
\* MAP under the key "a" (wrap "dict", nest 1) or inside nest LISTs.
LimitTree(shape, wrap, nest, n) ==
    [shape |-> shape, wrap |-> wrap, nest |-> nest, n |-> n]

\* The bytes around one leaf: the header, the wrapping containers and the
\* tag and length field of the leaf.
LimitOverhead(wrap, nest) ==
    Len(CANON_HDR) + (IF wrap = "dict" THEN 11 ELSE 5 * nest) + 5

\* The bytes of one entry of the leaf.
EntryLen(shape) == CASE shape = "bytes" -> 1 [] shape = "list" -> 2 [] shape = "dict" -> 11

\* The length of the CANON_BYTES of a tree.
LimitLen(t) == LimitOverhead(t.wrap, t.nest) + t.n * EntryLen(t.shape)

\* The number of containers around the innermost scalar.
LimitHeight(t) == t.nest + (IF t.shape = "bytes" THEN 0 ELSE 1)

LimitWraps ==
    {<<"list", k>> : k \in {0, 1, MAX_DEPTH - 1, MAX_DEPTH, MAX_DEPTH + 1}}
    \cup {<<"dict", 1>>}

\* Payloads that end one byte before, at and one byte past MAX_CANON_BYTES,
\* and containers of up to two and of more than 65,535 entries.  (The entry
\* loops of the encoder and of the decoder recurse here once per entry; a
\* container of exactly 65,535 entries is beyond what can be evaluated.)
LimitTrees ==
    {LimitTree("bytes", w[1], w[2],
               MAX_CANON_BYTES - LimitOverhead(w[1], w[2]) + slack) :
       w \in {<<"list", 0>>, <<"list", MAX_DEPTH>>, <<"dict", 1>>},
       slack \in {-1, 0, 1}}
    \cup {LimitTree("bytes", w[1], w[2], n) : w \in LimitWraps, n \in {0, 1}}
    \cup {LimitTree(shape, w[1], w[2], n) :
            shape \in {"list", "dict"}, w \in LimitWraps,
            n \in {0, 1, 2, MAX_LIST_ENTRIES + 1, MAX_LIST_ENTRIES + 2}}

\* The i-th key of a MAP leaf: one code point above U+FFFF, four bytes.
LimitKey(i) == VStr(<<65536 + i>>)

LimitLeaf(t) ==
    CASE t.shape = "bytes" -> VBytes([i \in 1..t.n |-> 0])
      [] t.shape = "list" -> VList([i \in 1..t.n |-> VBool(TRUE)])
      [] t.shape = "dict" -> VDict([i \in 1..t.n |-> <<LimitKey(i), VBool(TRUE)>>])

\* The tree as a host value.
LimitValue(t) ==
    IF t.wrap = "dict" THEN VDict(<< <<VStr(<<97>>), LimitLeaf(t)>> >>)
    ELSE NestList(t.nest, LimitLeaf(t))

\* The descriptor whose projection on "/a" is the tree: the tree and one
\* more key.
LimitDescriptor(t) ==
    VDict(<< <<VStr(<<97>>), LimitLeaf(t)>>, <<VStr(<<98>>), VBool(TRUE)>> >>)

\* The four bytes of a count or length.
Count4(n) == <<n \div 16777216, (n \div 65536) % 256, (n \div 256) % 256, n % 256>>

\* The bytes of the i-th entry of a MAP leaf: the key as STRING, then true.
LimitEntry(i) ==
    <<TAG_STRING, 0, 0, 0, 4>> \o Utf8OfCp(65536 + i) \o <<TAG_BOOLEAN, 1>>

LimitLeafBytes(t) ==
    CASE t.shape = "bytes" -> <<TAG_BYTES>> \o Count4(t.n) \o [i \in 1..t.n |-> 0]
      [] t.shape = "list" ->
           <<TAG_LIST>> \o Count4(t.n) \o Repeat(t.n, <<TAG_BOOLEAN, 1>>)
      [] t.shape = "dict" ->
           <<TAG_MAP>> \o Count4(t.n)
           \o [j \in 1..(11 * t.n) |-> LimitEntry(((j - 1) \div 11) + 1)[((j - 1) % 11) + 1]]

\* The tree as CANON_BYTES, written out without the encoder.
LimitCanon(t) ==
    CANON_HDR
    \o (IF t.wrap = "dict" THEN <<TAG_MAP, 0, 0, 0, 1, TAG_STRING, 0, 0, 0, 1, 97>>
        ELSE Repeat(t.nest, <<TAG_LIST, 0, 0, 0, 1>>))
    \o LimitLeafBytes(t)

\* What the state keeps of a byte string of up to a mebibyte: its length and
\* its first bytes.
Measure(bytes) ==
    [len |-> Len(bytes),
     head |-> SubSeq(bytes, 1, IF Len(bytes) < Len(CANON_HDR) THEN Len(bytes)
                               ELSE Len(CANON_HDR))]

\* An outcome with the bytes returned, or the bytes hashed for the MID
\* returned, measured.
MeasuredBytes(o) == IF o.ok THEN Ok(Measure(o.v)) ELSE o

MeasuredMid(o) == IF o.ok THEN Ok(Measure(o.v[2].sha256)) ELSE o

\* The state keeps the tree the input is written from (arg) and the call it
\* is meant for (aux); the input itself is written out when the call is made.
InitLimit ==
    /\ call = "init"
    /\ \/ arg \in LimitTrees /\ aux = "canonical_bytes_full"
       \/ arg \in {u \in LimitTrees : u.wrap = "dict"} /\ aux = "canonical_bytes_bind"
       \/ arg \in LimitTrees /\ aux = "mid_from_canon_bytes"
    /\ out = NoOutcome

LimitCanonicalBytesFull ==
    /\ call = "init"
    /\ aux = "canonical_bytes_full"
    /\ call' = "canonical_bytes_full"
    /\ out' = MeasuredBytes(canonical_bytes_full(LimitValue(arg)))
    /\ UNCHANGED <<arg, aux>>

LimitCanonicalBytesBind ==
    /\ call = "init"
    /\ aux = "canonical_bytes_bind"
    /\ call' = "canonical_bytes_bind"
    /\ out' = MeasuredBytes(canonical_bytes_bind(LimitDescriptor(arg), << <<47, 97>> >>))
    /\ UNCHANGED <<arg, aux>>

LimitMidFromCanonBytes ==
    /\ call = "init"
    /\ aux = "mid_from_canon_bytes"
    /\ call' = "mid_from_canon_bytes"
    /\ out' = MeasuredMid(mid_from_canon_bytes(LimitCanon(arg)))
    /\ UNCHANGED <<arg, aux>>

NextLimit == LimitCanonicalBytesFull \/ LimitCanonicalBytesBind \/ LimitMidFromCanonBytes

SpecLimit == InitLimit /\ [][NextLimit]_vars


\* The calls of C12.
LimitCalls == {"canonical_bytes_full", "canonical_bytes_bind", "mid_from_canon_bytes"}

\* The tree has a LIST or MAP of more than 65,535 entries.
OverCount(t) ==
    \/ t.shape = "list" /\ t.n > MAX_LIST_ENTRIES
    \/ t.shape = "dict" /\ t.n > MAX_MAP_ENTRIES

\* C12 (limit invariant of every accepted result): every byte string that
\* canonical_bytes_full or canonical_bytes_bind returns, and every byte string
\* for which mid_from_canon_bytes returns a MID, starts with MAP1\0, is at
\* most 1,048,576 bytes long (exactly 1,048,576 is allowed), holds no LIST or
\* MAP of more than 65,535 entries and nests at most 32 deep; a value whose
\* encoding would be longer, or a container of more than 65,535 entries,
\* yields ERR_LIMIT_SIZE.
C12_LimitInvariant ==
    call \in LimitCalls =>
      /\ out.ok => /\ out.v.head = CANON_HDR
                   /\ out.v.len = LimitLen(arg)
                   /\ out.v.len <= MAX_CANON_BYTES
                   /\ ~OverCount(arg)
                   /\ LimitHeight(arg) <= MAX_DEPTH
      /\ (/\ LimitHeight(arg) <= MAX_DEPTH
          /\ ~OverCount(arg)
          /\ LimitLen(arg) = MAX_CANON_BYTES)
         => out.ok
      /\ (/\ LimitHeight(arg) <= MAX_DEPTH
          /\ (OverCount(arg) \/ LimitLen(arg) > MAX_CANON_BYTES))
         => Raises(out, ERR_LIMIT_SIZE)

\* C12, its case: the projection of a descriptor on "/a" whose CANON_BYTES
\* are exactly 1,048,576 bytes long is returned.
C12_Witness ==
    /\ call = "canonical_bytes_bind"
    /\ arg.shape = "bytes"
    /\ LimitLen(arg) = MAX_CANON_BYTES
    /\ out.ok
    /\ out.v.len = MAX_CANON_BYTES

(* ------------------- pointer parsing (SpecPointer) --------------------- *)

\* The longest pointer string parsed.
MaxPtrLen == 4

\* The characters of the pointer strings: '/', '~', '0', '1' and 'a'.
PtrChars == {SLASH, TILDE, 48, 49, 97}

PointerTexts == SeqsUpTo(PtrChars, MaxPtrLen)

InitPointer ==
    /\ call = "init"
    /\ arg \in PointerTexts
    /\ aux = <<>>
    /\ out = NoOutcome

ParsePointer ==
    /\ call = "init"
    /\ call' = "parse_pointer"
    /\ out' = parse_pointer(arg)
    /\ UNCHANGED <<arg, aux>>

NextPointer == ParsePointer

SpecPointer == InitPointer /\ [][NextPointer]_vars

\* s.replace(c, r) for one character c and a string r.
RECURSIVE Replace(_, _, _)
Replace(s, c, r) ==
    IF s = <<>> THEN <<>>
    ELSE (IF Head(s) = c THEN r ELSE <<Head(s)>>) \o Replace(Tail(s), c, r)

\* esc_ptr_token: '~' to '~0', then '/' to '~1'.
esc_ptr_token(token) == Replace(Replace(token, TILDE, <<TILDE, 48>>), SLASH, <<TILDE, 49>>)

\* The pointer string of a token list: each token escaped, after a '/'.
RECURSIVE PointerOf(_)
PointerOf(tokens) ==
    IF tokens = <<>> THEN <<>>
    ELSE <<SLASH>> \o esc_ptr_token(Head(tokens)) \o PointerOf(Tail(tokens))

\* Every '~' of p is followed by '0' or '1'.
TildesEscaped(p) ==
    \A i \in 1..Len(p) : p[i] = TILDE => i < Len(p) /\ p[i + 1] \in {48, 49}

\* A valid pointer string: "", or a '/' first and every '~' escaped.
ValidPointer(p) == p = <<>> \/ (p[1] = SLASH /\ TildesEscaped(p))

\* C21 (pointer parsing): "" parses to the empty token list; a non-empty
\* pointer that does not start with '/' raises ERR_SCHEMA; otherwise the text
\* after the first '/' is split on '/' and each token is decoded in one pass
\* from left to right, ~0 to '~' and ~1 to '/', while '~' before any other
\* character or at the end of a token raises ERR_SCHEMA.  Parsing is the
\* inverse of escaping, and two different valid pointer strings never parse
\* to the same token list.
C21_PointerParsing ==
    call = "parse_pointer" =>
      /\ arg = <<>> => Returns(out, <<>>)
      /\ (arg # <<>> /\ arg[1] # SLASH) => Raises(out, ERR_SCHEMA)
      /\ (arg # <<>> /\ arg[1] = SLASH /\ ~TildesEscaped(arg)) => Raises(out, ERR_SCHEMA)
      /\ ValidPointer(arg)
         => /\ out.ok
            /\ Len(out.v) = Cardinality({i \in 1..Len(arg) : arg[i] = SLASH})
            /\ PointerOf(out.v) = arg
            /\ \A q \in PointerTexts :
                  (ValidPointer(q) /\ q # arg) => parse_pointer(q).v # out.v

\* C21, its case: "/~01" parses to the one token "~1".
C21_Witness ==
    /\ call = "parse_pointer"
    /\ arg = <<SLASH, TILDE, 48, 49>>
    /\ Returns(out, << <<TILDE, 49>> >>)

(* --------------- texts that are not JSON (SpecMalformed) --------------- *)

\* A container document written out compactly and spoilt in one way.
Spoilt(doc, defect) == [doc |-> doc, defect |-> defect]

Defects == {"unterminated", "trailing comma", "two roots", "trailing garbage"}

\* The octets of a spoilt document: the closing bracket left out, a comma
\* put before it, the document twice, or an x after it.
SpoiltBytes(x) ==
    LET text == JsonText(x.doc, <<>>)
    IN CASE x.defect = "unterminated" -> SubSeq(text, 1, Len(text) - 1)
         [] x.defect = "trailing comma" ->
              SubSeq(text, 1, Len(text) - 1) \o <<44, text[Len(text)]>>
         [] x.defect = "two roots" -> text \o text
         [] x.defect = "trailing garbage" -> text \o <<120>>

SpoiltInputs ==
    {Spoilt(doc, defect) : doc \in JArrays \cup JObjects \cup JDups, defect \in Defects}

InitMalformed ==
    /\ call = "init"
    /\ \E x \in SpoiltInputs :
          /\ arg = SpoiltBytes(x)
          /\ aux = [input |-> x, max_str_digits |-> DEFAULT_MAX_STR_DIGITS]
    /\ out = NoOutcome

NextMalformed == MidFullJson

SpecMalformed == InitMalformed /\ [][NextMalformed]_vars

\* Some key of the document has an unpaired surrogate.
RECURSIVE HasSurrogateKey(_)
HasSurrogateKey(x) ==
    CASE x.j = "leaf" -> FALSE
      [] x.j = "array" -> \E i \in 1..Len(x.items) : HasSurrogateKey(x.items[i])
      [] x.j = "object" ->
           \E i \in 1..Len(x.entries) :
              x.entries[i][1].flaw = "surrogate" \/ HasSurrogateKey(x.entries[i][2])

\* Some integer token of the document is outside int64.
HasOutOfRange(x) == \E l \in LeavesOf(x) : l.flaw = "range"

\* C22 (JSON parse failure): for input that passes the ingestion checks but
\* is not exactly one well-formed JSON text (unterminated value, trailing
\* comma, two roots, trailing garbage after the root), mid_full_json reports
\* ERR_CANON_MCF, also when the text before the syntax error holds a violation
\* of lower precedence: an integer token outside int64, a key with an unpaired
\* surrogate, a null, a float token or a duplicate key.
C22_ParseFailure == call = "mid_full_json" => Raises(out, ERR_CANON_MCF)

\* C22, the case that departs: [9223372036854775808]x raises ERR_TYPE.
C22_OutOfRangeBeforeSyntaxError ==
    /\ call = "mid_full_json"
    /\ aux.input = Spoilt(JArray(<<JsonBig>>), "trailing garbage")
    /\ Raises(out, ERR_TYPE)

\* C22 as the adapter has it: ERR_CANON_MCF when the text holds no integer
\* token outside int64 and no key with an unpaired surrogate; a null, a float
\* token, a surrogate in a string value and a duplicate key do not show.
C22_WithoutParseTimeErrors ==
    (/\ call = "mid_full_json"
     /\ ~HasOutOfRange(aux.input.doc)
     /\ ~HasSurrogateKey(aux.input.doc))
    => Raises(out, ERR_CANON_MCF)

(* ------------------------------ prepare ------------------------------ *)

\* A Python float: a finite one is (-1)^neg * num / 2^exp, exactly.
VFloat(kind, neg, num, exp) ==
    [t |-> "float", kind |-> kind, neg |-> neg, num |-> num, exp |-> exp]

RECURSIVE Pow(_, _)
Pow(b, n) == IF n = 0 THEN 1 ELSE b * Pow(b, n - 1)

\* The decimal digits of n >= 0, at least width of them.
RECURSIVE DecText(_, _)
DecText(n, width) ==
    IF n < 10 /\ width <= 1 THEN <<48 + n>>
    ELSE Append(DecText(n \div 10, width - 1), 48 + (n % 10))

\* "{:.{}f}".format(val, fp): the decimal nearest to the exact value with fp
\* fraction digits, ties to the even digit; the sign is kept, also on zero; no
\* point when fp is 0; nan and inf are spelled out.
format_fixed(val, fp) ==
    LET sign == IF val.neg THEN <<45>> ELSE <<>>
    IN CASE val.kind = "nan" -> <<110, 97, 110>>
         [] val.kind = "inf" -> sign \o <<105, 110, 102>>
         [] val.kind = "finite" ->
              LET n == val.num * Pow(10, fp)
                  d == Pow(2, val.exp)
                  q == n \div d
                  r == n % d
                  up == 2 * r > d \/ (2 * r = d /\ q % 2 = 1)
                  m == IF up THEN q + 1 ELSE q
                  whole == DecText(m \div Pow(10, fp), 1)
              IN IF fp = 0 THEN sign \o whole
                 ELSE sign \o whole \o <<46>> \o DecText(m % Pow(10, fp), fp)

\* _prepare_value: the dict loop from entry i, the list loop from item i, and
\* the scalar branches with the final raise.
RECURSIVE _prepare_value(_, _, _)
RECURSIVE PrepareEntries(_, _, _, _, _)
RECURSIVE PrepareItems(_, _, _, _, _)
_prepare_value(val, fp, omit_none) ==
    IF isinstance(val, "dict") THEN PrepareEntries(val.entries, 1, <<>>, fp, omit_none)
    ELSE IF isinstance(val, "list") THEN PrepareItems(val.items, 1, <<>>, fp, omit_none)
    ELSE IF isinstance(val, "bool") THEN Ok(val)
    ELSE IF isinstance(val, "int")
         THEN (IF IntLt(val, INT64_MIN) \/ IntLt(INT64_MAX, val)
               THEN Err(ERR_TYPE) ELSE Ok(val))
    ELSE IF isinstance(val, "float") THEN Ok(VStr(format_fixed(val, fp)))
    ELSE IF isinstance(val, "str") THEN Ok(val)
    ELSE IF isinstance(val, "bytes") THEN Ok(val)
    ELSE Err(ERR_SCHEMA)

PrepareEntries(entries, i, acc, fp, omit_none) ==
    IF i > Len(entries) THEN Ok(VDict(acc))
    ELSE IF ~isinstance(entries[i][1], "str") THEN Err(ERR_SCHEMA)
    ELSE IF entries[i][2].t = "none"
         THEN (IF omit_none THEN PrepareEntries(entries, i + 1, acc, fp, omit_none)
               ELSE Err(ERR_TYPE))
    ELSE Then(_prepare_value(entries[i][2], fp, omit_none), LAMBDA x :
         PrepareEntries(entries, i + 1, Append(acc, <<entries[i][1], x>>),
                        fp, omit_none))

PrepareItems(items, i, acc, fp, omit_none) ==
    IF i > Len(items) THEN Ok(VList(acc))
    ELSE IF items[i].t = "none" /\ omit_none
         THEN PrepareItems(items, i + 1, acc, fp, omit_none)
    ELSE Then(_prepare_value(items[i], fp, omit_none), LAMBDA x :
         PrepareItems(items, i + 1, Append(acc, x), fp, omit_none))

prepare(descriptor, float_precision, omit_none) ==
    _prepare_value(descriptor, float_precision, omit_none)

\* The float precisions tried: none, two digits, the default.
DEFAULT_FLOAT_PRECISION == 6
Precisions == {0, 2, DEFAULT_FLOAT_PRECISION}

\* 1.5, 0.125, 0.375, 2.5, 0.5, 72.5, 0.0, -0.0, -1.5, nan, inf, -inf.
Floats ==
    { VFloat("finite", FALSE, 3, 1), VFloat("finite", FALSE, 1, 3),
      VFloat("finite", FALSE, 3, 3), VFloat("finite", FALSE, 5, 1),
      VFloat("finite", FALSE, 1, 1), VFloat("finite", FALSE, 145, 1),
      VFloat("finite", FALSE, 0, 0), VFloat("finite", TRUE, 0, 0),
      VFloat("finite", TRUE, 3, 1), VFloat("nan", FALSE, 0, 0),
      VFloat("inf", FALSE, 0, 0), VFloat("inf", TRUE, 0, 0) }

\* None, True, 1, "a", b"a".
PrepScalars ==
    {VNone, VBool(TRUE), VInt(FALSE, <<1>>), VStr(<<97>>), VBytes(<<97>>)}

\* None, True, 1, 1.5.
PrepSmall == {VNone, VBool(TRUE), VInt(FALSE, <<1>>), VFloat("finite", FALSE, 3, 1)}

\* {"a": x}, {"a": [x, y]}, {"a": {"b": x}, "c": y}, {"a": [{"b": x}, [y]]},
\* and descriptors prepare rejects for something other than a None:
\* {"a": 2^63}, {"a": ()}, {1: None}, {"a": None, 1: 2}, {"a": [None], 1: 2}.
PrepDescriptors ==
    {VDict(<< <<VStr(<<97>>), x>> >>) : x \in PrepScalars \cup Floats}
    \cup {VDict(<< <<VStr(<<97>>), VList(<<x, y>>)>> >>) : x, y \in PrepSmall}
    \cup {VDict(<< <<VStr(<<97>>), VDict(<< <<VStr(<<98>>), x>> >>)>>,
                   <<VStr(<<99>>), y>> >>) : x, y \in PrepSmall}
    \cup {VDict(<< <<VStr(<<97>>),
                     VList(<< VDict(<< <<VStr(<<98>>), x>> >>), VList(<<y>>) >>)>> >>) :
            x, y \in PrepSmall}
    \cup { VDict(<< <<VStr(<<97>>), VInt(FALSE, <<128, 0, 0, 0, 0, 0, 0, 0>>)>> >>),
           VDict(<< <<VStr(<<97>>), [t |-> "tuple", elems |-> <<>>]>> >>),
           VDict(<< <<VInt(FALSE, <<1>>), VNone>> >>),
           VDict(<< <<VStr(<<97>>), VNone>>,
                    <<VInt(FALSE, <<1>>), VInt(FALSE, <<2>>)>> >>),
           VDict(<< <<VStr(<<97>>), VList(<<VNone>>)>>,
                    <<VInt(FALSE, <<1>>), VInt(FALSE, <<2>>)>> >>) }

InitPrepare ==
    /\ call = "init"
    /\ arg \in PrepDescriptors
    /\ \E fp \in Precisions, omit \in BOOLEAN :
          aux = [float_precision |-> fp, omit_none |-> omit]
    /\ out = NoOutcome

Prepare ==
    /\ call = "init"
    /\ call' = "prepare"
    /\ out' = prepare(arg, aux.float_precision, aux.omit_none)
    /\ UNCHANGED <<arg, aux>>

NextPrepare == Prepare

SpecPrepare == InitPrepare /\ [][NextPrepare]_vars

\* A descriptor of None, bool, int64, finite float, str and bytes in lists and
\* in dicts with str keys.
RECURSIVE Preparable(_)
Preparable(v) ==
    CASE v.t = "dict" ->
           \A i \in 1..Len(v.entries) :
              v.entries[i][1].t = "str" /\ Preparable(v.entries[i][2])
      [] v.t = "list" -> \A i \in 1..Len(v.items) : Preparable(v.items[i])
      [] v.t = "int" -> ~IntLt(v, INT64_MIN) /\ ~IntLt(INT64_MAX, v)
      [] v.t = "float" -> v.kind = "finite"
      [] OTHER -> v.t \in {"none", "bool", "str", "bytes"}

\* The places of the Nones: "map" for a MAP value, "list" for a LIST element.
RECURSIVE NonePlaces(_)
NonePlaces(v) ==
    CASE v.t = "dict" ->
           UNION { IF v.entries[i][2].t = "none" THEN {"map"}
                   ELSE NonePlaces(v.entries[i][2]) : i \in 1..Len(v.entries) }
      [] v.t = "list" ->
           UNION { IF v.items[i].t = "none" THEN {"list"}
                   ELSE NonePlaces(v.items[i]) : i \in 1..Len(v.items) }
      [] OTHER -> {}

\* The number the digits of s spell.
RECURSIVE DigitsValue(_)
DigitsValue(s) ==
    IF s = <<>> THEN 0
    ELSE 10 * DigitsValue(SubSeq(s, 1, Len(s) - 1)) + (s[Len(s)] - 48)

\* s is a decimal with exactly fp fraction digits, the sign of f, and no
\* further from f than half a unit of its last digit.
IsFixedDecimalOf(s, f, fp) ==
    LET body == IF s # <<>> /\ s[1] = 45 THEN SubSeq(s, 2, Len(s)) ELSE s
        point == Len(body) - fp
        digits == IF fp = 0 THEN body
                  ELSE SubSeq(body, 1, point - 1) \o SubSeq(body, point + 1, Len(body))
        off == DigitsValue(digits) * Pow(2, f.exp) - f.num * Pow(10, fp)
    IN /\ (s # <<>> /\ s[1] = 45) <=> f.neg
       /\ Len(body) > fp + (IF fp = 0 THEN 0 ELSE 1)
       /\ fp > 0 => body[point] = 46
       /\ \A i \in 1..Len(digits) : digits[i] \in Digits
       /\ 2 * (IF off < 0 THEN -off ELSE off) <= Pow(2, f.exp)

\* got is val with every None MAP entry and None LIST element left out, every
\* float as its decimal string, and everything else as it was.
RECURSIVE PreparedFrom(_, _, _)
PreparedFrom(got, val, fp) ==
    CASE val.t = "dict" ->
           LET kept == SelectSeq(val.entries, LAMBDA e : e[2].t # "none")
           IN /\ got.t = "dict"
              /\ Len(got.entries) = Len(kept)
              /\ \A i \in 1..Len(kept) :
                    /\ got.entries[i][1] = kept[i][1]
                    /\ PreparedFrom(got.entries[i][2], kept[i][2], fp)
      [] val.t = "list" ->
           LET kept == SelectSeq(val.items, LAMBDA e : e.t # "none")
           IN /\ got.t = "list"
              /\ Len(got.items) = Len(kept)
              /\ \A i \in 1..Len(kept) : PreparedFrom(got.items[i], kept[i], fp)
      [] val.t = "float" ->
           got.t = "str" /\ IsFixedDecimalOf(got.cps, val, fp)
      [] OTHER -> got.t = val.t /\ got = val

\* C23 (prepare and None): with omit_none=True prepare drops every None MAP
\* value and every None LIST element at every nesting level, passes bool,
\* in-range int, str and bytes through unchanged and turns each float into a
\* fixed-precision decimal string; with omit_none=False a None anywhere in the
\* descriptor, MAP value or LIST element, makes it raise ERR_TYPE.
C23_PrepareNone ==
    (call = "prepare" /\ Preparable(arg))
    => /\ aux.omit_none
          => out.ok /\ PreparedFrom(out.v, arg, aux.float_precision)
       /\ (~aux.omit_none /\ NonePlaces(arg) # {}) => Raises(out, ERR_TYPE)

\* C23, the case that departs: prepare({"a": [1, None]}, omit_none=False)
\* raises ERR_SCHEMA.
C23_ListNoneRaisesSchema ==
    /\ call = "prepare"
    /\ arg = VDict(<< <<VStr(<<97>>), VList(<<VInt(FALSE, <<1>>), VNone>>)>> >>)
    /\ ~aux.omit_none
    /\ Raises(out, ERR_SCHEMA)

\* C23 as prepare has it: with omit_none=True as claimed; with omit_none=False
\* ERR_TYPE when every None is a MAP value and ERR_SCHEMA when every None is a
\* LIST element.
C23_PrepareAsCoded ==
    (call = "prepare" /\ Preparable(arg))
    => /\ aux.omit_none
          => out.ok /\ PreparedFrom(out.v, arg, aux.float_precision)
       /\ (~aux.omit_none /\ NonePlaces(arg) = {"map"}) => Raises(out, ERR_TYPE)
       /\ (~aux.omit_none /\ NonePlaces(arg) = {"list"}) => Raises(out, ERR_SCHEMA)
       /\ (~aux.omit_none /\ NonePlaces(arg) = {})
          => out.ok /\ PreparedFrom(out.v, arg, aux.float_precision)

(* ------------- the checks of mid_from_canon_bytes, one by one ---------- *)

\* An input written as its first bytes and the number of zero bytes after
\* them.
OrderInput(head, pad) == [head |-> head, pad |-> pad]

OrderBytes(x) == x.head \o [i \in 1..x.pad |-> 0]

\* What an input starts with: the header, each shorter prefix of it, and five
\* bytes that are not it ("MAP2\0", "map1\0", "MAP1\1", "\0MAP1").
OrderHeaders ==
    {SubSeq(CANON_HDR, 1, k) : k \in 0..Len(CANON_HDR)}
    \cup { <<77, 65, 80, 50, 0>>, <<109, 97, 112, 49, 0>>, <<77, 65, 80, 49, 1>>,
           <<0, 77, 65, 80, 49>> }

\* What follows: nothing, True, True and a trailing byte, a STRING cut in its
\* length, an unknown tag, the header once more.
OrderBodies ==
    { <<>>, <<TAG_BOOLEAN, 1>>, <<TAG_BOOLEAN, 1, 0>>, <<TAG_STRING, 0, 0>>, <<9>>,
      CANON_HDR }

\* The zero bytes after that: none, as many as reach MAX_CANON_BYTES, one
\* more; and a BYTES value whose payload they are, of MAX_CANON_BYTES and of
\* one more.
OrderInputs ==
    {OrderInput(h \o b, 0) : h \in OrderHeaders, b \in OrderBodies}
    \cup {OrderInput(h \o b, MAX_CANON_BYTES + over - Len(h \o b)) :
            h \in OrderHeaders, b \in {<<>>, <<TAG_BOOLEAN, 1>>}, over \in {0, 1}}
    \cup {OrderInput(h \o <<TAG_BYTES>> \o Count4(MAX_CANON_BYTES + over - 10),
                     MAX_CANON_BYTES + over - 10) :
            h \in {CANON_HDR, <<77, 65, 80, 50, 0>>}, over \in {0, 1}}

\* arg holds the input, aux the checks made so far, call the place the call
\* has come to, out its outcome once it has ended.
InitOrder ==
    /\ call = "init"
    /\ arg \in OrderInputs
    /\ aux = <<>>
    /\ out = NoOutcome

\* A size check that lets everything through.
OrderSize_skipped ==
    /\ call = "init"
    /\ aux' = Append(aux, "size")
    /\ call' = "size checked"
    /\ UNCHANGED <<arg, out>>

\* if len(canon) > MAX_CANON_BYTES: raise
OrderSize ==
    /\ call = "init"
    /\ aux' = Append(aux, "size")
    /\ IF Len(OrderBytes(arg)) > MAX_CANON_BYTES
       THEN call' = "mid_from_canon_bytes" /\ out' = Err(ERR_LIMIT_SIZE)
       ELSE call' = "size checked" /\ out' = out
    /\ arg' = arg

\* if not canon.startswith(CANON_HDR): raise
OrderHeader ==
    /\ call = "size checked"
    /\ aux' = Append(aux, "header")
    /\ IF ~StartsWith(OrderBytes(arg), CANON_HDR)
       THEN call' = "mid_from_canon_bytes" /\ out' = Err(ERR_CANON_HDR)
       ELSE call' = "header checked" /\ out' = out
    /\ arg' = arg

\* The decoding of the root, the test for trailing bytes, and the hash.
DecodeBody(canon) ==
    LET r == mcf_decode_one(canon, Len(CANON_HDR), 0)
    IN IF ~r.ok THEN r
       ELSE IF r.v.off # Len(canon) THEN Err(ERR_CANON_MCF)
       ELSE Ok(Mid(canon))

OrderBody ==
    /\ call = "header checked"
    /\ aux' = Append(aux, "body")
    /\ call' = "mid_from_canon_bytes"
    /\ out' = MeasuredMid(DecodeBody(OrderBytes(arg)))
    /\ arg' = arg

NextOrder == OrderSize \/ OrderHeader \/ OrderBody

SpecOrder == InitOrder /\ [][NextOrder]_vars

\* The steps give what the call gives.
OrderStepsAreTheCall ==
    call = "mid_from_canon_bytes"
    => SameOutcome(out, MeasuredMid(mid_from_canon_bytes(OrderBytes(arg))))

\* C24 (order of the checks of mid_from_canon_bytes): size, then header, then
\* body.  An input of more than 1,048,576 bytes raises ERR_LIMIT_SIZE, also
\* with a wrong header; an input within the limit that does not start with the
\* header, one shorter than the header included, raises ERR_CANON_HDR whatever
\* follows; the body is decoded only after both checks have passed.
C24_CheckOrder ==
    /\ [](call = "mid_from_canon_bytes"
          => /\ Len(OrderBytes(arg)) > MAX_CANON_BYTES
                => Raises(out, ERR_LIMIT_SIZE) /\ aux = <<"size">>
             /\ (/\ Len(OrderBytes(arg)) <= MAX_CANON_BYTES
                 /\ ~StartsWith(OrderBytes(arg), CANON_HDR))
                => Raises(out, ERR_CANON_HDR) /\ aux = <<"size", "header">>)
    /\ [][/\ aux' = Append(aux, "header") => aux = <<"size">>
          /\ aux' = Append(aux, "body")
             => /\ aux = <<"size", "header">>
                /\ Len(OrderBytes(arg)) <= MAX_CANON_BYTES
                /\ StartsWith(OrderBytes(arg), CANON_HDR)]_vars

\* C24 happens: 1,048,577 bytes that start with "MAP2\0" raise ERR_LIMIT_SIZE
\* at the size check.
C24_Witness ==
    /\ call = "mid_from_canon_bytes"
    /\ arg = OrderInput(<<77, 65, 80, 50, 0>>, MAX_CANON_BYTES + 1 - 5)
    /\ aux = <<"size">>
    /\ Raises(out, ERR_LIMIT_SIZE)

(* -------- the ingestion checks of json_strict_parse_with_dups ---------- *)

\* An input written as a leading run, a BOM or none, a body, and the number
\* of spaces after it; utf8 says whether the body is well-formed UTF-8.
IngestInput(lead, bom, body, pad) ==
    [lead |-> lead, bom |-> bom, body |-> body, pad |-> pad]

IngestBytes(x) ==
    x.lead \o (IF x.bom THEN BOM ELSE <<>>) \o x.body.text \o [i \in 1..x.pad |-> 32]

IngestBody(text, utf8) == [text |-> text, utf8 |-> utf8]

\* Leading runs: none, a space, "\t\n\r ", and a vertical tab, which is no
\* JSON whitespace.
IngestLeads == {<<>>, <<32>>, <<9, 10, 13, 32>>, <<11>>}

\* Bodies in UTF-8: 1, "a", [], {"a":1}, "é", and the unfinished [1, .
Utf8Bodies ==
    { IngestBody(<<49>>, TRUE), IngestBody(<<34, 97, 34>>, TRUE),
      IngestBody(<<91, 93>>, TRUE),
      IngestBody(<<123, 34, 97, 34, 58, 49, 125>>, TRUE),
      IngestBody(<<34, 195, 169, 34>>, TRUE), IngestBody(<<91, 49, 44>>, TRUE) }

\* Bodies not in UTF-8: FF, "C3", the overlong C0 80, the surrogate ED A0 80,
\* F4 90 80 80 beyond U+10FFFF, each in a string; [1, FF; 1 FF; a lone 80.
NonUtf8Bodies ==
    { IngestBody(<<34, 255, 34>>, FALSE), IngestBody(<<34, 195, 34>>, FALSE),
      IngestBody(<<34, 192, 128, 34>>, FALSE),
      IngestBody(<<34, 237, 160, 128, 34>>, FALSE),
      IngestBody(<<34, 244, 144, 128, 128, 34>>, FALSE),
      IngestBody(<<91, 49, 44, 255>>, FALSE), IngestBody(<<49, 32, 255>>, FALSE),
      IngestBody(<<128>>, FALSE) }

\* Short inputs; inputs of MAX_CANON_BYTES + 1 bytes; and inputs of exactly
\* MAX_CANON_BYTES bytes that hold a BOM (the decoding of a mebibyte is not
\* worked out here).
IngestInputs ==
    {IngestInput(l, b, t, 0) :
        l \in IngestLeads, b \in BOOLEAN, t \in Utf8Bodies \cup NonUtf8Bodies}
    \cup {IngestInput(l, b, t, MAX_CANON_BYTES + 1 - Len(l) - (IF b THEN 3 ELSE 0) - Len(t.text)) :
            l \in {<<>>, <<32>>}, b \in BOOLEAN,
            t \in {IngestBody(<<49>>, TRUE), IngestBody(<<34, 255, 34>>, FALSE)}}
    \cup {IngestInput(l, TRUE, t, MAX_CANON_BYTES - Len(l) - 3 - Len(t.text)) :
            l \in {<<>>, <<32>>},
            t \in {IngestBody(<<49>>, TRUE), IngestBody(<<34, 255, 34>>, FALSE)}}

\* arg holds the input, aux the checks made so far, call the place the call
\* has come to, out its outcome once it has ended.
InitIngest ==
    /\ call = "init"
    /\ arg \in IngestInputs
    /\ aux = <<>>
    /\ out = NoOutcome

\* if len(raw) > MAX_CANON_BYTES: raise
IngestSize ==
    /\ call = "init"
    /\ aux' = Append(aux, "size")
    /\ IF Len(IngestBytes(arg)) > MAX_CANON_BYTES
       THEN call' = "mid_full_json" /\ out' = Err(ERR_LIMIT_SIZE)
       ELSE call' = "size checked" /\ out' = out
    /\ arg' = arg

\* A BOM test that looks at the first three bytes only.
IngestBom_at_start_only ==
    /\ call = "size checked"
    /\ aux' = Append(aux, "bom")
    /\ IF HasWord(IngestBytes(arg), 1, BOM)
       THEN call' = "mid_full_json" /\ out' = Err(ERR_SCHEMA)
       ELSE call' = "bom checked" /\ out' = out
    /\ arg' = arg

\* m = _WS.match(raw); if raw[start:start + 3] == BOM: raise
IngestBom ==
    /\ call = "size checked"
    /\ aux' = Append(aux, "bom")
    /\ IF HasWord(IngestBytes(arg), SkipWs(IngestBytes(arg), 1), BOM)
       THEN call' = "mid_full_json" /\ out' = Err(ERR_SCHEMA)
       ELSE call' = "bom checked" /\ out' = out
    /\ arg' = arg

\* text = raw.decode("utf-8"), UnicodeDecodeError reported as ERR_UTF8
IngestUtf8 ==
    /\ call = "bom checked"
    /\ aux' = Append(aux, "utf8")
    /\ IF ~bytes_decode_utf8(IngestBytes(arg)).ok
       THEN call' = "mid_full_json" /\ out' = Err(ERR_UTF8)
       ELSE call' = "decoded" /\ out' = out
    /\ arg' = arg

\* json.loads and what mid_full_json does with what it returns.
ParseAndHash(text, max_str_digits) ==
    Then(ExceptJSONDecodeError(json_loads(text, max_str_digits)), LAMBDA parsed :
    Then(json_to_canon_value(parsed.obj, 1), LAMBDA val :
    Then(canon_bytes_from_value(val), LAMBDA canon :
         IF parsed.dup_found THEN Err(ERR_DUP_KEY) ELSE Ok(Mid(canon)))))

IngestParse ==
    /\ call = "decoded"
    /\ aux' = Append(aux, "parse")
    /\ call' = "mid_full_json"
    /\ out' = ParseAndHash(bytes_decode_utf8(IngestBytes(arg)).v, DEFAULT_MAX_STR_DIGITS)
    /\ arg' = arg

NextIngest == IngestSize \/ IngestBom \/ IngestUtf8 \/ IngestParse

SpecIngest == InitIngest /\ [][NextIngest]_vars

\* The steps give what the call gives.
IngestStepsAreTheCall ==
    call = "mid_full_json"
    => SameOutcome(out, mid_full_json(IngestBytes(arg), DEFAULT_MAX_STR_DIGITS))

\* The size of the input as it was written.
IngestLen(x) == Len(x.lead) + (IF x.bom THEN 3 ELSE 0) + Len(x.body.text) + x.pad

\* A BOM stands directly after a leading run of 20, 09, 0A and 0D, which may
\* be empty.
BomAfterWhitespace(x) == x.bom /\ \A i \in 1..Len(x.lead) : x.lead[i] \in {32, 9, 10, 13}

\* C25 (order of the ingestion checks of the JSON adapter): size, then BOM,
\* then UTF-8, then parsing.  Raw input of more than 1,048,576 bytes raises
\* ERR_LIMIT_SIZE whatever it holds; otherwise EF BB BF directly after a
\* leading run of 20/09/0A/0D, which may be empty, raises ERR_SCHEMA, also when
\* later bytes are not UTF-8; otherwise input that is not UTF-8 raises ERR_UTF8
\* before anything is parsed.
C25_IngestOrder ==
    /\ [](call = "mid_full_json"
          => /\ IngestLen(arg) > MAX_CANON_BYTES
                => Raises(out, ERR_LIMIT_SIZE) /\ aux = <<"size">>
             /\ (IngestLen(arg) <= MAX_CANON_BYTES /\ BomAfterWhitespace(arg))
                => Raises(out, ERR_SCHEMA) /\ aux = <<"size", "bom">>
             /\ (/\ IngestLen(arg) <= MAX_CANON_BYTES
                 /\ ~BomAfterWhitespace(arg)
                 /\ ~arg.body.utf8)
                => Raises(out, ERR_UTF8) /\ aux = <<"size", "bom", "utf8">>)
    /\ [][/\ aux' = Append(aux, "bom") => aux = <<"size">>
          /\ aux' = Append(aux, "utf8") => aux = <<"size", "bom">>
          /\ aux' = Append(aux, "parse")
             => /\ aux = <<"size", "bom", "utf8">>
                /\ IngestLen(arg) <= MAX_CANON_BYTES
                /\ ~BomAfterWhitespace(arg)
                /\ arg.body.utf8]_vars

\* C25 happens: " " EF BB BF "\xff" raises ERR_SCHEMA at the BOM test.
C25_Witness ==
    /\ call = "mid_full_json"
    /\ arg = IngestInput(<<32>>, TRUE, IngestBody(<<34, 255, 34>>, FALSE), 0)
    /\ aux = <<"size", "bom">>
    /\ Raises(out, ERR_SCHEMA)

(* ------------- inputs of the decoder with several violations ----------- *)

\* A value as it stands in the input, by the violation it shows: none (True),
\* an unknown tag, a BOOLEAN payload of 2, a MAP key with the BOOLEAN tag, a
\* STRING of the byte FF, a MAP with the key "a" twice, a MAP with "b" before
\* "a", and True inside MAX_DEPTH lists.
SegmentKinds ==
    {"sound", "unknown tag", "bad payload", "key tag", "utf8", "dup", "order", "depth"}

SegmentBytes(kind) ==
    CASE kind = "sound" -> <<TAG_BOOLEAN, 1>>
      [] kind = "unknown tag" -> <<9>>
      [] kind = "bad payload" -> <<TAG_BOOLEAN, 2>>
      [] kind = "key tag" -> <<TAG_MAP, 0, 0, 0, 1, TAG_BOOLEAN, 1, TAG_BOOLEAN, 1>>
      [] kind = "utf8" -> <<TAG_STRING, 0, 0, 0, 1, 255>>
      [] kind = "dup" ->
           <<TAG_MAP, 0, 0, 0, 2, TAG_STRING, 0, 0, 0, 1, 97, TAG_BOOLEAN, 1,
             TAG_STRING, 0, 0, 0, 1, 97, TAG_BOOLEAN, 1>>
      [] kind = "order" ->
           <<TAG_MAP, 0, 0, 0, 2, TAG_STRING, 0, 0, 0, 1, 98, TAG_BOOLEAN, 1,
             TAG_STRING, 0, 0, 0, 1, 97, TAG_BOOLEAN, 1>>
      [] kind = "depth" -> Repeat(MAX_DEPTH, <<TAG_LIST, 0, 0, 0, 1>>) \o <<TAG_BOOLEAN, 1>>

\* The code of the violation a value of the kind shows.
SegmentCode(kind) ==
    CASE kind \in {"unknown tag", "bad payload"} -> ERR_CANON_MCF
      [] kind = "key tag" -> ERR_SCHEMA
      [] kind = "utf8" -> ERR_UTF8
      [] kind = "dup" -> ERR_DUP_KEY
      [] kind = "order" -> ERR_KEY_ORDER
      [] kind = "depth" -> ERR_LIMIT_DEPTH

\* An input: a LIST of two values, as it is, with a byte after it, or without
\* its last byte.
PrecInput(first, second, tail) == [first |-> first, second |-> second, tail |-> tail]

PrecTails == {"whole", "trailing", "truncated"}

PrecBytes(x) ==
    LET whole == CANON_HDR \o <<TAG_LIST, 0, 0, 0, 2>>
                 \o SegmentBytes(x.first) \o SegmentBytes(x.second)
    IN CASE x.tail = "whole" -> whole
         [] x.tail = "trailing" -> Append(whole, 0)
         [] x.tail = "truncated" -> SubSeq(whole, 1, Len(whole) - 1)

PrecInputs ==
    {PrecInput(a, b, t) : a \in SegmentKinds, b \in SegmentKinds, t \in PrecTails}

InitPrecedence ==
    /\ call = "init"
    /\ \E x \in PrecInputs : arg = PrecBytes(x) /\ aux = x
    /\ out = NoOutcome

NextPrecedence == MidFromCanonBytes

SpecPrecedence == InitPrecedence /\ [][NextPrecedence]_vars

\* The codes of the violations an input shows, in the order of their places
\* in the input.  The byte a truncated input lacks is the unknown tag, the
\* payload of 2, or the FF of the STRING, where the second value is one of
\* these; the truncation itself stands at the end, as a trailing byte does.
ViolationsInOrder(x) ==
    (IF x.first = "sound" THEN <<>> ELSE <<SegmentCode(x.first)>>)
    \o (IF \/ x.second = "sound"
           \/ x.tail = "truncated" /\ x.second \in {"unknown tag", "bad payload", "utf8"}
        THEN <<>> ELSE <<SegmentCode(x.second)>>)
    \o (IF x.tail = "whole" THEN <<>> ELSE <<ERR_CANON_MCF>>)

Exhibited(x) == SeqRange(ViolationsInOrder(x))

\* choose_reported_error: the code of the set that comes first in PRECEDENCE.
choose_reported_error(errors) ==
    CHOOSE e \in errors : \A f \in errors : PrecIndex(e) <= PrecIndex(f)

\* C26 (precedence in the decoder): when input to mid_from_canon_bytes, within
\* the size limit and with a valid header, shows violations of several kinds,
\* the code reported is the one of them that comes first in the list
\* ERR_CANON_HDR, ERR_CANON_MCF, ERR_SCHEMA, ERR_TYPE, ERR_UTF8, ERR_DUP_KEY,
\* ERR_KEY_ORDER, ERR_LIMIT_DEPTH, ERR_LIMIT_SIZE, wherever in the input each
\* violation stands.
C26_HighestPrecedence ==
    (call = "mid_from_canon_bytes" /\ Cardinality(Exhibited(aux)) >= 2)
    => Raises(out, choose_reported_error(Exhibited(aux)))

\* C26 as the decoder has it: the code reported is that of the violation that
\* stands first in the input, whatever the precedence of those behind it.
C26_FirstViolation ==
    (call = "mid_from_canon_bytes" /\ Cardinality(Exhibited(aux)) >= 2)
    => Raises(out, ViolationsInOrder(aux)[1])

\* C26, the case that departs: a MAP with "b" before "a" and then an unknown
\* tag raise ERR_KEY_ORDER.
C26_KeyOrderBeforeUnknownTag ==
    /\ call = "mid_from_canon_bytes"
    /\ aux = PrecInput("order", "unknown tag", "whole")
    /\ Raises(out, ERR_KEY_ORDER)

(* --------------------- the projection bind_project builds -------------- *)

\* The token lists of the pointers of P, and those of them no shorter one of
\* P is a strict prefix of.
TokenLists(P) == {PtrOf(P[k]).tokens : k \in 1..Len(P)}

IsPrefix(u, t) == Len(u) <= Len(t) /\ SubSeq(t, 1, Len(u)) = u

EffectivePaths(P) ==
    {t \in TokenLists(P) : \A u \in TokenLists(P) : IsPrefix(u, t) => u = t}

\* node, reached by the path pre, is a MAP each of whose keys lies on a path
\* of eff, and so is every node below it that is not at the tip of one.
RECURSIVE OnlySelected(_, _, _)
OnlySelected(node, pre, eff) ==
    /\ node.t = "dict"
    /\ \A i \in 1..Len(node.entries) :
          LET path == Append(pre, node.entries[i][1].cps)
          IN /\ \E t \in eff : IsPrefix(path, t)
             /\ path \notin eff => OnlySelected(node.entries[i][2], path, eff)

\* C27 (BIND result construction): when every pointer of P matches and none
\* is "", bind_project returns a MAP in which the value at the token path of
\* every effective pointer (matched and not subsumed by a shorter one) equals
\* the value of the descriptor at that path, every node on the way to it is a
\* MAP that holds only keys on the path of some effective pointer, and no other
\* key is present; the result is always a MAP and no path conflict is raised.
C27_ResultConstruction ==
    (/\ call \in ValueBindCalls
     /\ WellPosed(arg.descriptor, arg.pointers)
     /\ Fares(arg.descriptor, arg.pointers) \subseteq {"match"}
     /\ ~HasEmptyPointer(arg.pointers))
    => /\ Projection.ok
       /\ Projection.v.t = "dict"
       /\ \A t \in EffectivePaths(arg.pointers) :
             /\ Resolve(Projection.v, t, 1) = "match"
             /\ ValueAt(Projection.v, t, 1) = ValueAt(arg.descriptor, t, 1)
       /\ OnlySelected(Projection.v, <<>>, EffectivePaths(arg.pointers))
       /\ SameOutcome(out, IF call = "mid_bind" THEN mid_full(Projection.v)
                           ELSE canonical_bytes_full(Projection.v))

\* C27, its case: "/a/b" and "/a/l" share the MAP at "a", which holds both in
\* the projection and nothing else; "b" and "~" of the root are left out.
C27_Witness ==
    /\ call = "canonical_bytes_bind"
    /\ arg.pointers = << <<47, 97, 47, 98>>, <<47, 97, 47, 108>> >>
    /\ Fares(arg.descriptor, arg.pointers) = {"match"}
    /\ Len(arg.descriptor.entries) = 3
    /\ Projection.ok
    /\ Len(Projection.v.entries) = 1
    /\ Len(ValueAt(Projection.v, << <<97>> >>, 1).entries) = 2
    /\ out.ok

(* ------------------- canonicity of the accepted bytes ------------------ *)

\* The value the root of canon decodes to.
DecodedValue(canon) == mcf_decode_one(canon, Len(CANON_HDR), 0).v.val

\* The inputs of the decoder that it accepts, and what canonical_bytes_full
\* returns for the generated values.
AcceptedInputs == {x.bytes : x \in {y \in CanonInputs : mid_from_canon_bytes(y.bytes).ok}}

EncoderOutputs ==
    {canonical_bytes_full(v).v : v \in {w \in Values : canonical_bytes_full(w).ok}}

\* C28 (canonicity of accepted bytes): every byte string mid_from_canon_bytes
\* accepts is the canonical encoding of the value it decodes to
\* (canonical_bytes_full of that value returns the same bytes); no two distinct
\* accepted byte strings decode to the same value; and the accepted byte
\* strings are the outputs of canonical_bytes_full.
C28_AcceptedIsCanonical ==
    call = "mid_from_canon_bytes"
    => /\ out.ok
          => /\ Returns(canonical_bytes_full(DecodedValue(arg)), arg)
             /\ \A b \in AcceptedInputs :
                   CanonEq(DecodedValue(b), DecodedValue(arg)) => b = arg
       /\ arg \in EncoderOutputs => out.ok

\* C28, its case: the accepted bytes of {"a": True, "b": True} are what the
\* encoder returns for the dict given as {"b": True, "a": True}.
C28_Witness ==
    /\ call = "mid_from_canon_bytes"
    /\ out.ok
    /\ arg = CANON_HDR \o <<TAG_MAP, 0, 0, 0, 2, TAG_STRING, 0, 0, 0, 1, 97, TAG_BOOLEAN, 1,
                            TAG_STRING, 0, 0, 0, 1, 98, TAG_BOOLEAN, 1>>
    /\ Returns(canonical_bytes_full(VDict(<< <<VStr(<<98>>), VBool(TRUE)>>,
                                            <<VStr(<<97>>), VBool(TRUE)>> >>)), arg)
    /\ arg \in EncoderOutputs

(* --------------- BIND and the fields it does not select ---------------- *)

\* What a field that may go unselected holds: a value the encoder takes
\* (7), None, the float 1.5, 33 nested LISTs, a LIST of one entry more than
\* MAX_LIST_ENTRIES.
JunkKinds == {"sound", "none", "float", "deep", "long"}

JunkValue(kind) ==
    CASE kind = "sound" -> VInt(FALSE, <<7>>)
      [] kind = "none" -> VNone
      [] kind = "float" -> VFloat("finite", FALSE, 3, 1)
      [] kind = "deep" -> NestList(MAX_DEPTH + 1, VBool(TRUE))
      [] kind = "long" -> VList([i \in 1..(MAX_LIST_ENTRIES + 1) |-> VBool(TRUE)])

\* The entries in the order written, or in the reverse one.
InOrder(rev, s) == IF rev THEN [i \in 1..Len(s) |-> s[Len(s) + 1 - i]] ELSE s

\* A descriptor by what it holds: {"a": {"b": b, "j": inner, "l": [True]},
\* "z": top, "b": "x"}, its keys inserted in this order or in the reverse
\* one.
SelectInput(top, inner, b, rev) ==
    [top |-> top, inner |-> inner, b |-> b, rev |-> rev]

SelectDescriptor(x) ==
    VDict(InOrder(x.rev,
          << <<VStr(<<97>>),
               VDict(InOrder(x.rev,
                     << <<VStr(<<98>>), VInt(FALSE, <<x.b>>)>>,
                        <<VStr(<<106>>), JunkValue(x.inner)>>,
                        <<VStr(<<108>>), VList(<<VBool(TRUE)>>)>> >>))>>,
             <<VStr(<<122>>), JunkValue(x.top)>>,
             <<VStr(<<98>>), VStr(<<120>>)>> >>))

InnerKinds == {"sound", "none", "float"}

\* The first descriptor holds 1 at /a/b.
SelectFirsts ==
    {SelectInput(top, inner, 1, FALSE) : top \in JunkKinds, inner \in InnerKinds}

\* What the second descriptor holds at /z, by what the first holds there.
SecondTops(top) ==
    CASE top = "sound" -> {"sound", "none"}
      [] top = "none" -> {"float"}
      [] top = "float" -> {"float", "deep"}
      [] top = "deep" -> {"long"}
      [] top = "long" -> {"long"}

\* The second descriptor is written in the other key order and holds 1 or
\* 2 at /a/b.
SelectSeconds(v) ==
    {SelectInput(top, inner, b, ~v.rev) :
        top \in SecondTops(v.top), inner \in {v.inner, "float"}, b \in {1, 2}}

\* ["/a/b"], ["/a/l", "/b"], ["/a/b", "/a/l"], ["/a"], ["/z"],
\* ["/a/b", "/a"], ["/a", "/a/b"], ["/a/j", "/b"], ["/q"], ["/a/b", "/q"].
SelectPointerLists ==
    { << <<47, 97, 47, 98>> >>,
      << <<47, 97, 47, 108>>, <<47, 98>> >>,
      << <<47, 97, 47, 98>>, <<47, 97, 47, 108>> >>,
      << <<47, 97>> >>,
      << <<47, 122>> >>,
      << <<47, 97, 47, 98>>, <<47, 97>> >>,
      << <<47, 97>>, <<47, 97, 47, 98>> >>,
      << <<47, 97, 47, 106>>, <<47, 98>> >>,
      << <<47, 113>> >>,
      << <<47, 97, 47, 98>>, <<47, 113>> >> }

\* target[tok] = ... of the build loop assigns into an object of the
\* descriptor: a leaf stored by an earlier path (cur, the descriptor's own
\* object) is the nxt a later path steps into.
AssignsIntoDescriptor(effective) ==
    \E j, k \in 1..Len(effective) :
       /\ j < k
       /\ Len(effective[j]) < Len(effective[k])
       /\ SubSeq(effective[k], 1, Len(effective[j])) = effective[j]

\* bind_project alters the descriptor it was given: only the build loop
\* assigns to anything, and it is reached after rules (c), (3) and (e).
DescriptorAltered(descriptor, pointers) ==
    /\ isinstance(descriptor, "dict")
    /\ Cardinality({pointers[k] : k \in 1..Len(pointers)}) = Len(pointers)
    /\ Returns(Then(ParseAll(pointers, 1, <<>>), LAMBDA parsed :
               Then(MatchLoop(descriptor, parsed, 1, Matching(<<>>, FALSE, FALSE)),
                    LAMBDA m :
                    Ok(/\ m.any_match
                       /\ ~m.any_unmatched
                       /\ \A k \in 1..Len(parsed) : parsed[k][1] # <<>>
                       /\ AssignsIntoDescriptor(Effective(m.matched_paths, 1, <<>>))))),
               TRUE)

\* Two descriptors are projected with the same pointers: out is the outcome
\* for the first and aux.second for the second; aux.altered says whether
\* bind_project assigned into the first.
InitSelect ==
    /\ call = "init"
    /\ arg = <<>>
    /\ aux = <<>>
    /\ out = NoOutcome

SelectCanonicalBytesBind ==
    /\ call = "init"
    /\ \E v \in SelectFirsts, P \in SelectPointerLists :
       \E w \in SelectSeconds(v) :
          /\ arg' = [first |-> v, second |-> w, pointers |-> P]
          /\ out' = canonical_bytes_bind(SelectDescriptor(v), P)
          /\ aux' = [second |-> canonical_bytes_bind(SelectDescriptor(w), P),
                     altered |-> DescriptorAltered(SelectDescriptor(v), P)]
    /\ call' = "canonical_bytes_bind"

SelectMidBind ==
    /\ call = "init"
    /\ \E v \in SelectFirsts, P \in SelectPointerLists :
       \E w \in SelectSeconds(v) :
          /\ arg' = [first |-> v, second |-> w, pointers |-> P]
          /\ out' = mid_bind(SelectDescriptor(v), P)
          /\ aux' = [second |-> mid_bind(SelectDescriptor(w), P),
                     altered |-> DescriptorAltered(SelectDescriptor(v), P)]
    /\ call' = "mid_bind"

NextSelect == SelectCanonicalBytesBind \/ SelectMidBind

SpecSelect == InitSelect /\ [][NextSelect]_vars

\* The reference tokens of each pointer of the list.
SelectTokens(P) == [k \in 1..Len(P) |-> parse_pointer(P[k]).v]

\* Every pointer of P matches in v.
AllMatch(v, P) ==
    \A k \in 1..Len(P) : Resolve(v, SelectTokens(P)[k], 1) = "match"

\* The pointers of P select equal values in v and in w.
SelectEqual(v, w, P) ==
    \A k \in 1..Len(P) :
       CanonEq(ValueAt(v, SelectTokens(P)[k], 1), ValueAt(w, SelectTokens(P)[k], 1))

\* Each value P selects in v is one the encoder takes, in its place.
SelectedSound(v, P) ==
    \A k \in 1..Len(P) :
       canon_bytes_from_value(Enclose(SelectTokens(P)[k], 1,
                                      ValueAt(v, SelectTokens(P)[k], 1))).ok

\* C29: BIND on the value API depends on the selection only. For two MAP
\* descriptors and pointers that all match in both and select equal values
\* in both, canonical_bytes_bind and mid_bind give the same outcome; when
\* the selected values are ones the encoder takes the call succeeds,
\* whatever the fields left unselected hold (None, a float, 33 nested
\* LISTs, an over-long LIST); and bind_project assigns into no object of
\* the descriptor it was given.
C29_SelectionOnly ==
    call \in ValueBindCalls
    => /\ ( /\ AllMatch(SelectDescriptor(arg.first), arg.pointers)
            /\ AllMatch(SelectDescriptor(arg.second), arg.pointers)
            /\ SelectEqual(SelectDescriptor(arg.first),
                           SelectDescriptor(arg.second), arg.pointers) )
          => SameOutcome(out, aux.second)
       /\ ( /\ AllMatch(SelectDescriptor(arg.first), arg.pointers)
            /\ SelectedSound(SelectDescriptor(arg.first), arg.pointers) )
          => out.ok
       /\ ~aux.altered

\* mid_bind of {"a": {"b": 1, "j": None, "l": [True]}, "z": <33 nested
\* LISTs>, "b": "x"} and of {"b": "x", "z": <65,536 entries>, "a": {"l":
\* [True], "j": 1.5, "b": 1}} with ["/a/b", "/a/l"] return the same MID.
C29_Witness ==
    /\ call = "mid_bind"
    /\ arg.first = SelectInput("deep", "none", 1, FALSE)
    /\ arg.second = SelectInput("long", "float", 1, TRUE)
    /\ arg.pointers = << <<47, 97, 47, 98>>, <<47, 97, 47, 108>> >>
    /\ out.ok
    /\ SameOutcome(out, aux.second)
    /\ ~aux.altered
    /\ ~canon_bytes_from_value(SelectDescriptor(arg.first)).ok
    /\ ~canon_bytes_from_value(SelectDescriptor(arg.second)).ok

(* ------------------ the stages of mid_bind_json ------------------------ *)

\* "z" and "k"
JsonZ == JLeaf(<<34, 122, 34>>, VStr(<<122>>), "none")
JsonK == JLeaf(<<34, 107, 34>>, VStr(<<107>>), "none")

\* x inside k arrays.
RECURSIVE NestArray(_, _)
NestArray(k, x) == IF k = 0 THEN x ELSE JArray(<<NestArray(k - 1, x)>>)

\* What the field "z" of a document holds: 1, null, 1.0, "\ud800", an
\* integer outside int64, true inside 31 and inside 32 arrays (depth 32 and
\* 33 with the root), [null], {"k": 1, "k": "2"}, {"k": 1, "k": null},
\* {"\ud800": 1}.
StageFields ==
    { JsonInt, JsonNull, JsonFloat, JsonSurrogate, JsonBig,
      NestArray(MAX_DEPTH - 1, JsonTrue), NestArray(MAX_DEPTH, JsonTrue),
      JArray(<<JsonNull>>),
      JObject(<< <<JsonK, JsonInt>>, <<JsonK, JsonTwo>> >>),
      JObject(<< <<JsonK, JsonInt>>, <<JsonK, JsonNull>> >>),
      JObject(<< <<JsonSurrogate, JsonInt>> >>) }

\* {"a": {"b": 1}, "z": field} for each field, {"a": {"b": field}, "z": 1}
\* for three of them, and {"a": {"b": 1}, "a": 1}.
StageDocs ==
    { JObject(<< <<JsonA, JObject(<< <<JsonB, JsonInt>> >>)>>, <<JsonZ, z>> >>) :
        z \in StageFields }
    \cup { JObject(<< <<JsonA, JObject(<< <<JsonB, b>> >>)>>, <<JsonZ, JsonInt>> >>) :
             b \in {JsonNull, JsonSurrogate, JObject(<< <<JsonK, JsonInt>>, <<JsonK, JsonTwo>> >>)} }
    \cup { JObject(<< <<JsonA, JObject(<< <<JsonB, JsonInt>> >>)>>, <<JsonA, JsonInt>> >>) }

\* ["/a/b"], ["/z"], ["/q"], ["/a/b", "/q"], ["a"], [].
StagePointerLists ==
    { << <<47, 97, 47, 98>> >>, << <<47, 122>> >>, << <<47, 113>> >>,
      << <<47, 97, 47, 98>>, <<47, 113>> >>, << <<97>> >>, <<>> }

\* {"a":true,"z":""}
LongDoc == JObject(<< <<JsonA, JsonTrue>>, <<JsonZ, JLeaf(<<34, 34>>, VStr(<<>>), "none")>> >>)

\* An input of mid_bind_json: a document written out compactly (n = 0), or
\* the document {"a":true,"z":"xx...x"} with n > 0 times x, which is n + 17
\* octets long and whose CANON_BYTES would be n + 33 octets long.
StageInput(doc, n, pointers) == [doc |-> doc, n |-> n, pointers |-> pointers]

\* The octets of the long document around its x's.
LongOverhead == Len(JsonText(LongDoc, <<>>))

StageInputs ==
    {StageInput(doc, 0, P) : doc \in StageDocs, P \in StagePointerLists}
    \cup {StageInput(LongDoc, MAX_CANON_BYTES - LongOverhead + slack, P) :
            slack \in {-1, 0, 1}, P \in {<< <<47, 97>> >>, << <<47, 113>> >>}}

\* json_strict_parse_with_dups(raw) for the input.  The long document is
\* beyond what the scanner can be evaluated on: its length is tested as the
\* code tests it, and what json.loads makes of it is written out.
StageParsed(x) ==
    CASE x.n = 0 ->
           json_strict_parse_with_dups(JsonText(x.doc, <<>>), DEFAULT_MAX_STR_DIGITS)
      [] x.n + LongOverhead > MAX_CANON_BYTES -> Err(ERR_LIMIT_SIZE)
      [] OTHER ->
           Ok([obj |-> VDict(<< <<VStr(<<97>>), VBool(TRUE)>>,
                                <<VStr(<<122>>), VStr(<<>> \o [i \in 1..x.n |-> 120])>> >>),
               dup_found |-> FALSE])

\* val = json_to_canon_value(obj)
StageConverted(x) ==
    Then(StageParsed(x), LAMBDA parsed : json_to_canon_value(parsed.obj, 1))

\* proj = bind_project(val, pointers)
StageProjected(x) ==
    Then(StageConverted(x), LAMBDA val : bind_project(val, x.pointers))

\* canon = canon_bytes_from_value(proj)
StageEncoded(x) ==
    Then(StageProjected(x), LAMBDA proj : canon_bytes_from_value(proj))

\* One stage: it raises and the call ends, or the call goes on.
StageDone(o, stage, after) ==
    /\ aux' = Append(aux, stage)
    /\ IF o.ok THEN call' = after /\ out' = out
       ELSE call' = "mid_bind_json" /\ out' = o
    /\ arg' = arg

InitStages ==
    /\ call = "init"
    /\ arg \in StageInputs
    /\ aux = <<>>
    /\ out = NoOutcome

\* The conversion left out.
StageConvert_skipped ==
    /\ call = "parsed"
    /\ StageDone(Ok(VNone), "convert", "converted")

StageParse ==
    /\ call = "init"
    /\ StageDone(StageParsed(arg), "parse", "parsed")

StageConvert ==
    /\ call = "parsed"
    /\ StageDone(StageConverted(arg), "convert", "converted")

StageProject ==
    /\ call = "converted"
    /\ StageDone(StageProjected(arg), "project", "projected")

StageEncode ==
    /\ call = "projected"
    /\ StageDone(StageEncoded(arg), "encode", "encoded")

\* if dup_found: raise MapError(ERR_DUP_KEY); return "map1:" + sha256
StageDup ==
    /\ call = "encoded"
    /\ aux' = Append(aux, "dup")
    /\ call' = "mid_bind_json"
    /\ out' = IF StageParsed(arg).v.dup_found THEN Err(ERR_DUP_KEY)
              ELSE Ok(Mid(StageEncoded(arg).v))
    /\ arg' = arg

NextStages == StageParse \/ StageConvert \/ StageProject \/ StageEncode \/ StageDup

SpecStages == InitStages /\ [][NextStages]_vars

\* The stages give what the call gives.
StagesAreTheCall ==
    (call = "mid_bind_json" /\ arg.n = 0)
    => SameOutcome(out, mid_bind_json(JsonText(arg.doc, <<>>), arg.pointers,
                                      DEFAULT_MAX_STR_DIGITS))

\* What json.loads is taken to make of the long document is what the
\* scanner makes of it when it is short.
LongParseIsTheScan ==
    \A n \in 0..2 :
       SameOutcome(json_strict_parse_with_dups(
                       <<123, 34, 97, 34, 58, 116, 114, 117, 101, 44, 34, 122, 34, 58, 34>>
                       \o [i \in 1..n |-> 120] \o <<34, 125>>, DEFAULT_MAX_STR_DIGITS),
                   Ok([obj |-> VDict(<< <<VStr(<<97>>), VBool(TRUE)>>,
                                        <<VStr(<<122>>), VStr([i \in 1..n |-> 120])>> >>),
                       dup_found |-> FALSE]))

AllStages == <<"parse", "convert", "project", "encode", "dup">>

\* What the claim names as barring a MID, anywhere in the document: a null,
\* a float token, an unpaired surrogate, a duplicate key, nesting deeper
\* than 32.
StageFlawed(doc) ==
    \/ SeqRange(Events(doc, FALSE)) \cap {"null", "float", "surrogate", "dup"} # {}
    \/ JHeight(doc) > MAX_DEPTH

\* C30 (mid_bind_json validates the whole document before projecting): the
\* stages run in the order parse, convert, project, encode, and the deferred
\* duplicate-key error is raised only after the encoding; the projection is
\* made only of a document whose whole tree was converted.  A null, a float
\* token, an unpaired surrogate, nesting deeper than 32 or a duplicate key
\* anywhere in the document, selected or not, means that no MID is returned.
\* The limits of the encoder (entry counts, 1 MiB of CANON_BYTES) are applied
\* to the projection only, the encoding being that of the projection: a
\* document of 1 MiB whose own CANON_BYTES would be longer than 1 MiB gets a
\* MID when the pointers leave the long string out.  (The 1 MiB limit on the
\* octets of the input belongs to the parse stage.)
C30_StagesInOrder ==
    /\ [](call = "mid_bind_json"
          => /\ out.ok => aux = AllStages
             /\ Raises(out, ERR_DUP_KEY) => aux = AllStages
             /\ (arg.n = 0 /\ StageFlawed(arg.doc)) => ~out.ok
             /\ (arg.n > 0 /\ arg.n + LongOverhead <= MAX_CANON_BYTES)
                => out.ok)
    /\ [][/\ \A k \in 1..Len(AllStages) :
                aux' = Append(aux, AllStages[k]) => aux = SubSeq(AllStages, 1, k - 1)
          /\ aux' = Append(aux, "project") => StageConverted(arg).ok
          /\ aux' = Append(aux, "encode") => StageProjected(arg).ok
          /\ aux' = Append(aux, "dup") => StageEncoded(arg).ok]_vars

\* C30 happens: {"a":{"b":1},"z":{"k":1,"k":"2"}} with ["/a/b"] goes
\* through all five stages and raises ERR_DUP_KEY for the duplicate in the
\* field that is not selected.
C30_Witness ==
    /\ call = "mid_bind_json"
    /\ arg = StageInput(JObject(<< <<JsonA, JObject(<< <<JsonB, JsonInt>> >>)>>,
                                   <<JsonZ, JObject(<< <<JsonK, JsonInt>>,
                                                       <<JsonK, JsonTwo>> >>)>> >>),
                        0, << <<47, 97, 47, 98>> >>)
    /\ aux = AllStages
    /\ Raises(out, ERR_DUP_KEY)

=============================================================================
